---- MODULE Spec2Model ----
(***************************************************************************)
(* GradTrack AI: the turn-processing loop of GradTrackAgent                *)
(* (backend/agent.py), its tool dispatch (mcp_tools/) and the memory       *)
(* manager that feeds it (backend/memory.py).                              *)
(*                                                                         *)
(* Text is a sequence of one-character strings, so that substring tests,   *)
(* case folding, slicing and concatenation are computed as Python does.    *)
(* A Python dict is a function whose DOMAIN is the set of keys present;    *)
(* reading a missing key with d[k] raises, d.get(k) yields None.           *)
(***************************************************************************)
EXTENDS Integers, Sequences, FiniteSets, TLC

(***************************************************************************)
(* Bounds of the model                                                     *)
(***************************************************************************)
\* turns one behaviour processes
MaxTurns == 1
\* words in a message handed to the decision engine
MaxWords == 2
\* readings the clock can take
MaxClock == 1

(***************************************************************************)
(* Python values                                                           *)
(***************************************************************************)
\* Python's None / JSON null
None == "None"

\* str.lower() on one character
LowerChar(c) ==
    CASE c = "A" -> "a" [] c = "B" -> "b" [] c = "C" -> "c" [] c = "D" -> "d"
      [] c = "E" -> "e" [] c = "F" -> "f" [] c = "G" -> "g" [] c = "H" -> "h"
      [] c = "I" -> "i" [] c = "J" -> "j" [] c = "K" -> "k" [] c = "L" -> "l"
      [] c = "M" -> "m" [] c = "N" -> "n" [] c = "O" -> "o" [] c = "P" -> "p"
      [] c = "Q" -> "q" [] c = "R" -> "r" [] c = "S" -> "s" [] c = "T" -> "t"
      [] c = "U" -> "u" [] c = "V" -> "v" [] c = "W" -> "w" [] c = "X" -> "x"
      [] c = "Y" -> "y" [] c = "Z" -> "z" [] OTHER -> c

\* str.lower()
Lower(s) ==
    [i \in 1..Len(s) |-> LowerChar(s[i])]

\* kw in s  (substring test)
Contains(s, kw) ==
    \E i \in 0..(Len(s) - Len(kw)) : SubSeq(s, i + 1, i + Len(kw)) = kw

\* any(kw in s for kw in kws)
AnyIn(kws, s) ==
    \E kw \in kws : Contains(s, kw)

\* s[:n]
Take(s, n) ==
    SubSeq(s, 1, IF Len(s) < n THEN Len(s) ELSE n)

(***************************************************************************)
(* Rule-based decision: keyword tables of _rule_based_decision             *)
(***************************************************************************)
\* "add", "create", "new application", "track", "update", "status", "my applications", "delete", "remove", "list applications"
app_keywords ==
    { <<"a","d","d">>,
      <<"c","r","e","a","t","e">>,
      <<"n","e","w"," ","a","p","p","l","i","c","a","t","i","o","n">>,
      <<"t","r","a","c","k">>,
      <<"u","p","d","a","t","e">>,
      <<"s","t","a","t","u","s">>,
      <<"m","y"," ","a","p","p","l","i","c","a","t","i","o","n","s">>,
      <<"d","e","l","e","t","e">>,
      <<"r","e","m","o","v","e">>,
      <<"l","i","s","t"," ","a","p","p","l","i","c","a","t","i","o","n","s">> }

\* "add", "create", "new"
app_create_words ==
    { <<"a","d","d">>,
      <<"c","r","e","a","t","e">>,
      <<"n","e","w">> }

\* "update", "change", "move"
app_update_words ==
    { <<"u","p","d","a","t","e">>,
      <<"c","h","a","n","g","e">>,
      <<"m","o","v","e">> }

\* "delete", "remove"
app_delete_words ==
    { <<"d","e","l","e","t","e">>,
      <<"r","e","m","o","v","e">> }

\* "deadline", "requirement", "gre", "toefl", "tuition", "ranking", "faculty", "what does", "tell me about"
research_keywords ==
    { <<"d","e","a","d","l","i","n","e">>,
      <<"r","e","q","u","i","r","e","m","e","n","t">>,
      <<"g","r","e">>,
      <<"t","o","e","f","l">>,
      <<"t","u","i","t","i","o","n">>,
      <<"r","a","n","k","i","n","g">>,
      <<"f","a","c","u","l","t","y">>,
      <<"w","h","a","t"," ","d","o","e","s">>,
      <<"t","e","l","l"," ","m","e"," ","a","b","o","u","t">> }

\* "essay", "sop", "statement of purpose", "analyze", "review my"
essay_keywords ==
    { <<"e","s","s","a","y">>,
      <<"s","o","p">>,
      <<"s","t","a","t","e","m","e","n","t"," ","o","f"," ","p","u","r","p","o","s","e">>,
      <<"a","n","a","l","y","z","e">>,
      <<"r","e","v","i","e","w"," ","m","y">> }

\* "task", "to-do", "todo", "deadline", "due", "remind", "upcoming"
task_keywords ==
    { <<"t","a","s","k">>,
      <<"t","o","-","d","o">>,
      <<"t","o","d","o">>,
      <<"d","e","a","d","l","i","n","e">>,
      <<"d","u","e">>,
      <<"r","e","m","i","n","d">>,
      <<"u","p","c","o","m","i","n","g">> }

\* "upcoming", "due soon", "this week"
task_upcoming_words ==
    { <<"u","p","c","o","m","i","n","g">>,
      <<"d","u","e"," ","s","o","o","n">>,
      <<"t","h","i","s"," ","w","e","e","k">> }

\* "create", "add", "new task"
task_create_words ==
    { <<"c","r","e","a","t","e">>,
      <<"a","d","d">>,
      <<"n","e","w"," ","t","a","s","k">> }

\* "complete", "done", "finish"
task_complete_words ==
    { <<"c","o","m","p","l","e","t","e">>,
      <<"d","o","n","e">>,
      <<"f","i","n","i","s","h">> }

\* school names, in the order the code scans them
schools ==
    << <<"m","i","t">>,
      <<"s","t","a","n","f","o","r","d">>,
      <<"b","e","r","k","e","l","e","y">>,
      <<"c","m","u">>,
      <<"c","a","r","n","e","g","i","e"," ","m","e","l","l","o","n">>,
      <<"g","e","o","r","g","i","a"," ","t","e","c","h">> >>


\* next((s for s in schools if s in message_lower), None), then `or "unknown"`
ExtractSchool(message_lower) ==
    LET hits == {i \in 1..Len(schools) : Contains(message_lower, schools[i])}
    IN  IF hits = {}
        THEN <<"u","n","k","n","o","w","n">>
        ELSE schools[CHOOSE i \in hits : \A j \in hits : i <= j]

\* an inference that looks for the delete verbs first
AppAction_delete_first(message_lower) ==
    IF AnyIn(app_delete_words, message_lower) THEN "delete"
    ELSE IF AnyIn(app_create_words, message_lower) THEN "create"
    ELSE IF AnyIn(app_update_words, message_lower) THEN "update"
    ELSE "read"

\* action inferred for application_database
AppAction(message_lower) ==
    IF AnyIn(app_create_words, message_lower) THEN "create"
    ELSE IF AnyIn(app_update_words, message_lower) THEN "update"
    ELSE IF AnyIn(app_delete_words, message_lower) THEN "delete"
    ELSE "read"

\* action inferred for calendar_todo
TaskAction(message_lower) ==
    IF AnyIn(task_upcoming_words, message_lower) THEN "upcoming"
    ELSE IF AnyIn(task_create_words, message_lower) THEN "create_task"
    ELSE IF AnyIn(task_complete_words, message_lower) THEN "complete_task"
    ELSE "list_tasks"

\* _rule_based_decision checking the task keywords before the research keywords
RuleBasedDecision_task_first(user_message) ==
    LET message_lower == Lower(user_message)
    IN  IF AnyIn(app_keywords, message_lower)
        THEN [use_tool |-> TRUE,
              tool_name |-> "application_database",
              tool_params |-> [action |-> AppAction(message_lower)],
              reasoning |-> "User wants to manage applications"]
        ELSE IF AnyIn(task_keywords, message_lower)
        THEN [use_tool |-> TRUE,
              tool_name |-> "calendar_todo",
              tool_params |-> [action |-> TaskAction(message_lower)],
              reasoning |-> "User wants to manage tasks"]
        ELSE IF AnyIn(research_keywords, message_lower)
        THEN [use_tool |-> TRUE,
              tool_name |-> "program_research",
              tool_params |-> [school |-> ExtractSchool(message_lower),
                               program |-> <<"C","o","m","p","u","t","e","r"," ","S","c","i","e","n","c","e">>,
                               info_type |-> "all"],
              reasoning |-> "User wants program information"]
        ELSE IF AnyIn(essay_keywords, message_lower)
        THEN [use_tool |-> TRUE,
              tool_name |-> "essay_analyzer",
              tool_params |-> [essay_text |-> user_message,
                               analysis_type |-> "full"],
              reasoning |-> "User wants essay feedback"]
        ELSE [use_tool |-> FALSE,
              tool_name |-> None,
              tool_params |-> << >>,
              reasoning |-> "General conversation - no tool needed"]

\* GradTrackAgent._rule_based_decision
RuleBasedDecision(user_message) ==
    LET message_lower == Lower(user_message)
    IN  IF AnyIn(app_keywords, message_lower)
        THEN [use_tool |-> TRUE,
              tool_name |-> "application_database",
              tool_params |-> [action |-> AppAction(message_lower)],
              reasoning |-> "User wants to manage applications"]
        ELSE IF AnyIn(research_keywords, message_lower)
        THEN [use_tool |-> TRUE,
              tool_name |-> "program_research",
              tool_params |-> [school |-> ExtractSchool(message_lower),
                               program |-> <<"C","o","m","p","u","t","e","r"," ","S","c","i","e","n","c","e">>,
                               info_type |-> "all"],
              reasoning |-> "User wants program information"]
        ELSE IF AnyIn(essay_keywords, message_lower)
        THEN [use_tool |-> TRUE,
              tool_name |-> "essay_analyzer",
              tool_params |-> [essay_text |-> user_message,
                               analysis_type |-> "full"],
              reasoning |-> "User wants essay feedback"]
        ELSE IF AnyIn(task_keywords, message_lower)
        THEN [use_tool |-> TRUE,
              tool_name |-> "calendar_todo",
              tool_params |-> [action |-> TaskAction(message_lower)],
              reasoning |-> "User wants to manage tasks"]
        ELSE [use_tool |-> FALSE,
              tool_name |-> None,
              tool_params |-> << >>,
              reasoning |-> "General conversation - no tool needed"]

(***************************************************************************)
(* Messages of the decision engine's input space                           *)
(***************************************************************************)
\* "Add", "deadline", "essay", "task", "hello", "delete", "due", "status", "update"
Words ==
    << <<"A","d","d">>,
       <<"d","e","a","d","l","i","n","e">>,
       <<"e","s","s","a","y">>,
       <<"t","a","s","k">>,
       <<"h","e","l","l","o">>,
       <<"d","e","l","e","t","e">>,
       <<"d","u","e">>,
       <<"s","t","a","t","u","s">>,
       <<"u","p","d","a","t","e">> >>

\* " ".join(ws) over a sequence of word indices
RECURSIVE JoinWords(_)
JoinWords(ws) ==
    IF ws = << >> THEN << >>
    ELSE IF Len(ws) = 1 THEN Words[ws[1]]
    ELSE Words[ws[1]] \o <<" ">> \o JoinWords(Tail(ws))

\* every message of at most MaxWords words
Messages ==
    {JoinWords(ws) : ws \in UNION {[1..n -> 1..Len(Words)] : n \in 0..MaxWords}}

(***************************************************************************)
(* Tool collaborators: the execute method of each registered tool.         *)
(* A handler's outcome is a return value or a raised exception; what the   *)
(* database holds is outside the agent, so an operator yields the set of   *)
(* outcomes the code can produce for the given parameters.                 *)
(***************************************************************************)
\* d.get(k) for keys that hold names
Get(d, k) ==
    IF k \in DOMAIN d THEN d[k] ELSE None

\* str(x) of the names that are formatted into messages
Str(a) ==
    CASE a = None -> <<"N","o","n","e">>
      [] a = "application_database" -> <<"a","p","p","l","i","c","a","t","i","o","n","_","d","a","t","a","b","a","s","e">>
      [] a = "program_research" -> <<"p","r","o","g","r","a","m","_","r","e","s","e","a","r","c","h">>
      [] a = "essay_analyzer" -> <<"e","s","s","a","y","_","a","n","a","l","y","z","e","r">>
      [] a = "calendar_todo" -> <<"c","a","l","e","n","d","a","r","_","t","o","d","o">>
      [] a = "program_recommender" -> <<"p","r","o","g","r","a","m","_","r","e","c","o","m","m","e","n","d","e","r">>
      [] a = "research_automation" -> <<"r","e","s","e","a","r","c","h","_","a","u","t","o","m","a","t","i","o","n">>
      [] a = "decision_analyzer" -> <<"d","e","c","i","s","i","o","n","_","a","n","a","l","y","z","e","r">>
      [] a = "email_monitor" -> <<"e","m","a","i","l","_","m","o","n","i","t","o","r">>
      [] a = "web_search" -> <<"w","e","b","_","s","e","a","r","c","h">>
      [] a = "create" -> <<"c","r","e","a","t","e">>
      [] a = "read" -> <<"r","e","a","d">>
      [] a = "update" -> <<"u","p","d","a","t","e">>
      [] a = "delete" -> <<"d","e","l","e","t","e">>
      [] a = "search" -> <<"s","e","a","r","c","h">>
      [] a = "stats" -> <<"s","t","a","t","s">>
      [] a = "by_status" -> <<"b","y","_","s","t","a","t","u","s">>
      [] a = "add" -> <<"a","d","d">>
      [] a = "get" -> <<"g","e","t">>
      [] a = "list" -> <<"l","i","s","t">>
      [] a = "complete" -> <<"c","o","m","p","l","e","t","e">>
      [] a = "upcoming" -> <<"u","p","c","o","m","i","n","g">>
      [] a = "by_application" -> <<"b","y","_","a","p","p","l","i","c","a","t","i","o","n">>
      [] a = "create_template" -> <<"c","r","e","a","t","e","_","t","e","m","p","l","a","t","e">>
      [] a = "list_tasks" -> <<"l","i","s","t","_","t","a","s","k","s">>
      [] a = "create_task" -> <<"c","r","e","a","t","e","_","t","a","s","k">>
      [] a = "complete_task" -> <<"c","o","m","p","l","e","t","e","_","t","a","s","k">>
      [] a = "all" -> <<"a","l","l">>
      [] a = "full" -> <<"f","u","l","l">>

\* str(n) of the counts that are formatted into messages
NumStr(n) ==
    CASE n = 0 -> <<"0">> [] n = 1 -> <<"1">> [] n = 2 -> <<"2">> [] n = 3 -> <<"3">>
      [] n = 72 -> <<"7","2">>

\* a handler that returned v
Return(v) ==
    [kind |-> "return", value |-> v]

\* a handler that raised an exception whose str() is msg
Raise(msg) ==
    [kind |-> "raise", value |-> msg]

\* _success(message=..., data=...)
Success(message, data) ==
    [success |-> TRUE, message |-> message, data |-> data]

\* _success(data=...)
SuccessData(data) ==
    [success |-> TRUE, data |-> data]

\* _error(message)
Error(message) ==
    [success |-> FALSE, error |-> message]

\* str(e) of an exception raised by the database layer
DbError ==
    <<"d","a","t","a","b","a","s","e"," ","i","s"," ","l","o","c","k","e","d">>

\* the application lists get_all_applications can return
AppLists ==
    { << >>, << [id |-> 1, school_name |-> <<"M","I","T">>] >> }

\* first field of ["school_name", "program_name", "degree_type"] that is absent
MissingCreateField(params) ==
    IF "school_name" \notin DOMAIN params THEN <<"s","c","h","o","o","l","_","n","a","m","e">>
    ELSE IF "program_name" \notin DOMAIN params THEN <<"p","r","o","g","r","a","m","_","n","a","m","e">>
    ELSE IF "degree_type" \notin DOMAIN params THEN <<"d","e","g","r","e","e","_","t","y","p","e">>
    ELSE << >>

\* the handlers of ApplicationDatabaseTool: outcomes of handler(params)
AppHandler(action, params) ==
    CASE action = "create" ->
           IF MissingCreateField(params) # << >>
           THEN {Return(Error(<<"M","i","s","s","i","n","g"," ","r","e","q","u","i","r","e","d"," ","f","i","e","l","d"," ","f","o","r"," ","c","r","e","a","t","e",":"," ">> \o MissingCreateField(params)))}
           ELSE {Return(Success(<<"C","r","e","a","t","e","d"," ","a","p","p","l","i","c","a","t","i","o","n"," ","f","o","r"," ">> \o params["school_name"]
                                  \o <<" ">> \o params["program_name"],
                                [id |-> 1, status |-> "researching"])),
                 Raise(DbError)}
      [] action = "read" ->
           IF "app_id" \in DOMAIN params
           THEN {Return(Error(<<"A","p","p","l","i","c","a","t","i","o","n"," ","w","i","t","h"," ","I","D"," ">> \o NumStr(params["app_id"]) \o <<" ","n","o","t"," ","f","o","u","n","d">>)),
                 Return(SuccessData([id |-> params["app_id"], school_name |-> <<"M","I","T">>])),
                 Raise(DbError)}
           ELSE {Return(Success(<<"F","o","u","n","d"," ">> \o NumStr(Len(apps)) \o <<" ","a","p","p","l","i","c","a","t","i","o","n","s">>,
                                [applications |-> apps, count |-> Len(apps)])) : apps \in AppLists}
                \cup {Raise(DbError)}
      [] action = "update" ->
           IF "app_id" \notin DOMAIN params
           THEN {Return(Error(<<"M","i","s","s","i","n","g"," ","r","e","q","u","i","r","e","d"," ","p","a","r","a","m","e","t","e","r",":"," ","a","p","p","_","i","d">>))}
           ELSE IF DOMAIN params \cap {"school_name", "program_name", "degree_type",
                                       "deadline", "status", "decision", "notes"} = {}
           THEN {Return(Error(<<"N","o"," ","f","i","e","l","d","s"," ","t","o"," ","u","p","d","a","t","e">>))}
           ELSE {Return(Error(<<"A","p","p","l","i","c","a","t","i","o","n"," ","w","i","t","h"," ","I","D"," ">> \o NumStr(params["app_id"]) \o <<" ","n","o","t"," ","f","o","u","n","d">>)),
                 Return(Success(<<"U","p","d","a","t","e","d"," ","a","p","p","l","i","c","a","t","i","o","n"," ">> \o NumStr(params["app_id"]),
                                [id |-> params["app_id"]])),
                 Raise(DbError)}
      [] action = "delete" ->
           IF "app_id" \notin DOMAIN params
           THEN {Return(Error(<<"M","i","s","s","i","n","g"," ","r","e","q","u","i","r","e","d"," ","p","a","r","a","m","e","t","e","r",":"," ","a","p","p","_","i","d">>))}
           ELSE {Return(Error(<<"A","p","p","l","i","c","a","t","i","o","n"," ","w","i","t","h"," ","I","D"," ">> \o NumStr(params["app_id"]) \o <<" ","n","o","t"," ","f","o","u","n","d">>)),
                 Return(Success(<<"D","e","l","e","t","e","d"," ","a","p","p","l","i","c","a","t","i","o","n"," ","f","o","r"," ","M","I","T"," ","C","o","m","p","u","t","e","r"," ","S","c","i","e","n","c","e">>,
                                [deleted_id |-> params["app_id"]])),
                 Raise(DbError)}
      [] action = "search" ->
           IF "query" \notin DOMAIN params
           THEN {Return(Error(<<"M","i","s","s","i","n","g"," ","r","e","q","u","i","r","e","d"," ","p","a","r","a","m","e","t","e","r",":"," ","q","u","e","r","y">>))}
           ELSE {Return(Success(<<"F","o","u","n","d"," ">> \o NumStr(Len(apps)) \o <<" ","a","p","p","l","i","c","a","t","i","o","n","s"," ","m","a","t","c","h","i","n","g"," ","'">>
                                  \o params["query"] \o <<"'">>,
                                [applications |-> apps, count |-> Len(apps)])) : apps \in AppLists}
                \cup {Raise(DbError)}
      [] action = "stats" ->
           {Return(Success(<<"A","p","p","l","i","c","a","t","i","o","n"," ","s","t","a","t","i","s","t","i","c","s"," ","r","e","t","r","i","e","v","e","d">>, [total |-> 0])),
            Raise(DbError)}
      [] action = "by_status" ->
           IF "status" \notin DOMAIN params
           THEN {Return(Error(<<"M","i","s","s","i","n","g"," ","r","e","q","u","i","r","e","d"," ","p","a","r","a","m","e","t","e","r",":"," ","s","t","a","t","u","s">>))}
           ELSE {Return(Success(<<"F","o","u","n","d"," ">> \o NumStr(Len(apps)) \o <<" ","a","p","p","l","i","c","a","t","i","o","n","s"," ","w","i","t","h"," ","s","t","a","t","u","s"," ","'">>
                                  \o params["status"] \o <<"'">>,
                                [applications |-> apps, count |-> Len(apps)])) : apps \in AppLists}
                \cup {Raise(DbError)}

\* execute() of the tools that wrap their handlers in try/except:
\* handlers maps each action name to what its handler can do with the
\* parameters; a handler's exception becomes an error result
WrappedExecute(handlers, params) ==
    LET action == Get(params, "action")
    IN  IF action = None
        THEN {Return(Error(<<"M","i","s","s","i","n","g"," ","r","e","q","u","i","r","e","d"," ","p","a","r","a","m","e","t","e","r",":"," ","a","c","t","i","o","n">>))}
        ELSE IF action \notin DOMAIN handlers
        THEN {Return(Error(<<"U","n","k","n","o","w","n"," ","a","c","t","i","o","n",":"," ">> \o Str(action)))}
        ELSE {IF o.kind = "raise"
              THEN Return(Error(<<"E","r","r","o","r"," ","e","x","e","c","u","t","i","n","g"," ">> \o Str(action) \o <<":"," ">> \o o.value))
              ELSE o : o \in handlers[action]}

\* ApplicationDatabaseTool.execute
ApplicationDatabaseExecute(params) ==
    WrappedExecute([a \in {"create", "read", "update", "delete", "search", "stats",
                           "by_status"} |-> AppHandler(a, params)],
                   params)

\* handlers of the recommender, research-automation and decision-analyzer
\* tools: each returns _success(...) or _error(...), or raises
OpaqueHandler(action, params) ==
    {Return(Success(<<"o","k">>, [count |-> 0])),
     Return(Error(<<"n","o","t"," ","f","o","u","n","d">>)),
     Raise(DbError)}

\* ProgramRecommenderTool.execute
ProgramRecommenderExecute(params) ==
    WrappedExecute([a \in {"get_recommendations", "analyze_profile", "find_similar"}
                    |-> OpaqueHandler(a, params)],
                   params)

\* ResearchAutomationTool.execute
ResearchAutomationExecute(params) ==
    WrappedExecute([a \in {"research_program", "batch_research", "get_summary",
                           "check_fit", "auto_populate"} |-> OpaqueHandler(a, params)],
                   params)

\* DecisionAnalyzerTool.execute
DecisionAnalyzerExecute(params) ==
    WrappedExecute([a \in {"analyze_decision", "get_patterns", "get_insights",
                           "compare_decisions", "generate_report"}
                    |-> OpaqueHandler(a, params)],
                   params)

\* the task lists the task queries of the database layer can return
TaskLists ==
    { << >>, << [id |-> 1, title |-> <<"S","u","b","m","i","t"," ","S","O","P">>, urgency |-> "upcoming"] >> }

\* CalendarTodoTool._generate_upcoming_summary, for tasks due this week
UpcomingSummary(tasks) ==
    IF tasks = << >>
    THEN <<"N","o"," ","u","p","c","o","m","i","n","g"," ","t","a","s","k","s","."," ","A","d","d"," ","s","o","m","e"," ","t","o"," ","s","t","a","y"," ","o","r","g","a","n","i","z","e","d","!">>
    ELSE NumStr(Len(tasks)) \o <<" ","t","a","s","k","(","s",")"," ","d","u","e"," ","t","h","i","s"," ","w","e","e","k",".">>

\* the handlers of CalendarTodoTool: outcomes of actions[action](**kwargs)
CalendarHandler(action, kwargs) ==
    CASE action = "add" ->
           IF "title" \notin DOMAIN kwargs
           THEN {Return([error |-> <<"t","i","t","l","e"," ","i","s"," ","r","e","q","u","i","r","e","d">>])}
           ELSE {Return([success |-> TRUE, task_id |-> 1,
                         message |-> <<"C","r","e","a","t","e","d"," ","t","a","s","k",":"," ">> \o kwargs["title"],
                         reminder_set |-> FALSE]),
                 Raise(DbError)}
      [] action = "get" ->
           IF "task_id" \notin DOMAIN kwargs
           THEN {Return([error |-> <<"t","a","s","k","_","i","d"," ","i","s"," ","r","e","q","u","i","r","e","d">>])}
           ELSE {Return([error |-> <<"T","a","s","k"," ","w","i","t","h"," ","I","D"," ">> \o NumStr(kwargs["task_id"]) \o <<" ","n","o","t"," ","f","o","u","n","d">>]),
                 Return([task |-> [id |-> kwargs["task_id"]]]),
                 Raise(DbError)}
      [] action = "list" ->
           {Return([tasks |-> ts, count |-> Len(ts), grouped |-> [pending |-> ts]]) : ts \in TaskLists}
           \cup {Raise(DbError)}
      [] action = "update" ->
           IF "task_id" \notin DOMAIN kwargs
           THEN {Return([error |-> <<"t","a","s","k","_","i","d"," ","i","s"," ","r","e","q","u","i","r","e","d">>])}
           ELSE IF DOMAIN kwargs \cap {"title", "description", "due_date", "priority",
                                       "status", "category", "reminder_date"} = {}
           THEN {Return([error |-> <<"N","o"," ","u","p","d","a","t","e"," ","f","i","e","l","d","s"," ","p","r","o","v","i","d","e","d">>])}
           ELSE {Return([error |-> <<"F","a","i","l","e","d"," ","t","o"," ","u","p","d","a","t","e"," ","t","a","s","k"," ">> \o NumStr(kwargs["task_id"])]),
                 Return([success |-> TRUE, message |-> <<"U","p","d","a","t","e","d"," ","t","a","s","k",":"," ","S","u","b","m","i","t"," ","S","O","P">>,
                         task |-> [id |-> kwargs["task_id"]]]),
                 Raise(DbError)}
      [] action = "delete" ->
           IF "task_id" \notin DOMAIN kwargs
           THEN {Return([error |-> <<"t","a","s","k","_","i","d"," ","i","s"," ","r","e","q","u","i","r","e","d">>])}
           ELSE {Return([error |-> <<"T","a","s","k"," ","w","i","t","h"," ","I","D"," ">> \o NumStr(kwargs["task_id"]) \o <<" ","n","o","t"," ","f","o","u","n","d">>]),
                 Return([success |-> TRUE, message |-> <<"D","e","l","e","t","e","d"," ","t","a","s","k",":"," ","S","u","b","m","i","t"," ","S","O","P">>]),
                 Raise(DbError)}
      [] action = "complete" ->
           IF "task_id" \notin DOMAIN kwargs
           THEN {Return([error |-> <<"t","a","s","k","_","i","d"," ","i","s"," ","r","e","q","u","i","r","e","d">>])}
           ELSE {Return([error |-> <<"T","a","s","k"," ","w","i","t","h"," ","I","D"," ">> \o NumStr(kwargs["task_id"]) \o <<" ","n","o","t"," ","f","o","u","n","d">>]),
                 Return([success |-> TRUE, message |-> <<"C","o","m","p","l","e","t","e","d",":"," ","S","u","b","m","i","t"," ","S","O","P">>,
                         celebration |-> <<"G","r","e","a","t"," ","j","o","b","!">>]),
                 Raise(DbError)}
      [] action = "upcoming" ->
           {Return([urgent |-> << >>, upcoming |-> ts, planned |-> << >>,
                    total |-> Len(ts), summary |-> UpcomingSummary(ts)]) : ts \in TaskLists}
           \cup {Raise(DbError)}
      [] action = "by_application" ->
           IF "application_id" \notin DOMAIN kwargs
           THEN {Return([error |-> <<"a","p","p","l","i","c","a","t","i","o","n","_","i","d"," ","i","s"," ","r","e","q","u","i","r","e","d">>])}
           ELSE {Return([tasks |-> ts, count |-> Len(ts), completed |-> 0,
                         progress_percent |-> 0]) : ts \in TaskLists}
                \cup {Raise(DbError)}
      [] action = "stats" ->
           {Return([statistics |-> [total |-> 0, overdue |-> 0],
                    summary |-> <<"N","o"," ","t","a","s","k","s"," ","y","e","t","."," ","C","r","e","a","t","e"," ","s","o","m","e"," ","t","o"," ","t","r","a","c","k"," ","y","o","u","r"," ","p","r","o","g","r","e","s","s","!">>]),
            Raise(DbError)}
      [] action = "create_template" ->
           IF "application_id" \notin DOMAIN kwargs
           THEN {Return([error |-> <<"a","p","p","l","i","c","a","t","i","o","n","_","i","d"," ","i","s"," ","r","e","q","u","i","r","e","d">>])}
           ELSE {Return([error |-> <<"A","p","p","l","i","c","a","t","i","o","n"," ">> \o NumStr(kwargs["application_id"]) \o <<" ","n","o","t"," ","f","o","u","n","d">>]),
                 Return([success |-> TRUE, tasks_created |-> 9, tasks |-> << >>,
                         message |-> <<"C","r","e","a","t","e","d"," ","9"," ","t","a","s","k","s"," ","f","o","r"," ","M","I","T"," ","a","p","p","l","i","c","a","t","i","o","n">>]),
                 Raise(DbError)}

\* CalendarTodoTool.execute: no try/except, no success flag on most results
CalendarTodoExecute(kwargs) ==
    LET action == Get(kwargs, "action")
    IN  IF action \in {"add", "get", "list", "update", "delete", "complete", "upcoming",
                       "by_application", "stats", "create_template"}
        THEN CalendarHandler(action, kwargs)
        ELSE {Return([error |-> <<"U","n","k","n","o","w","n"," ","a","c","t","i","o","n",":"," ">> \o Str(action)])}

\* str.strip() at the left end
RECURSIVE LStrip(_)
LStrip(s) ==
    IF s # << >> /\ Head(s) \in {" ", "\n", "\t"} THEN LStrip(Tail(s)) ELSE s

\* str.strip() at the right end
RECURSIVE RStrip(_)
RStrip(s) ==
    IF s # << >> /\ s[Len(s)] \in {" ", "\n", "\t"}
    THEN RStrip(SubSeq(s, 1, Len(s) - 1)) ELSE s

\* str.strip()
Strip(s) ==
    RStrip(LStrip(s))

\* ProgramResearchTool.SCHOOL_ALIASES.get(school.lower(), school)
NormalizeSchool(school) ==
    LET lower == Lower(school)
    IN  CASE lower \in {<<"m","i","t">>, <<"m","a","s","s","a","c","h","u","s","e","t","t","s"," ","i","n","s","t","i","t","u","t","e"," ","o","f"," ","t","e","c","h","n","o","l","o","g","y">>} -> <<"M","I","T">>
          [] lower \in {<<"s","t","a","n","f","o","r","d">>, <<"s","t","a","n","f","o","r","d"," ","u","n","i","v","e","r","s","i","t","y">>} -> <<"S","t","a","n","f","o","r","d">>
          [] lower \in {<<"c","m","u">>, <<"c","a","r","n","e","g","i","e"," ","m","e","l","l","o","n">>, <<"c","a","r","n","e","g","i","e"," ","m","e","l","l","o","n"," ","u","n","i","v","e","r","s","i","t","y">>}
               -> <<"C","a","r","n","e","g","i","e"," ","M","e","l","l","o","n">>
          [] lower \in {<<"b","e","r","k","e","l","e","y">>, <<"u","c"," ","b","e","r","k","e","l","e","y">>, <<"c","a","l">>} -> <<"U","C"," ","B","e","r","k","e","l","e","y">>
          [] lower \in {<<"g","e","o","r","g","i","a"," ","t","e","c","h">>, <<"g","a","t","e","c","h">>, <<"g","e","o","r","g","i","a"," ","i","n","s","t","i","t","u","t","e"," ","o","f"," ","t","e","c","h","n","o","l","o","g","y">>}
               -> <<"G","e","o","r","g","i","a"," ","T","e","c","h">>
          [] OTHER -> school

\* ProgramResearchTool.PROGRAM_ALIASES.get(program.lower(), program)
NormalizeProgram(program) ==
    IF Lower(program) \in {<<"c","s">>, <<"c","o","m","p","u","t","e","r"," ","s","c","i","e","n","c","e">>, <<"e","e","c","s">>, <<"m","s"," ","c","s">>, <<"p","h","d"," ","c","s">>, <<"m","s","c","s">>}
    THEN <<"C","o","m","p","u","t","e","r"," ","S","c","i","e","n","c","e">>
    ELSE program

\* the "deadline" entry of PROGRAM_DATABASE[school]["Computer Science"]
ProgramDeadline(school) ==
    CASE school = <<"M","I","T">> -> <<"D","e","c","e","m","b","e","r"," ","1","5">>
      [] school = <<"S","t","a","n","f","o","r","d">> -> <<"D","e","c","e","m","b","e","r"," ","1">>
      [] school = <<"C","a","r","n","e","g","i","e"," ","M","e","l","l","o","n">> -> <<"D","e","c","e","m","b","e","r"," ","1","0">>
      [] school = <<"U","C"," ","B","e","r","k","e","l","e","y">> -> <<"D","e","c","e","m","b","e","r"," ","1","5">>
      [] school = <<"G","e","o","r","g","i","a"," ","T","e","c","h">> -> <<"D","e","c","e","m","b","e","r"," ","1","5">>

\* ProgramResearchTool.execute: a lookup in a static table
ProgramResearchExecute(params) ==
    LET school == IF "school" \in DOMAIN params THEN Strip(params["school"]) ELSE << >>
        program == IF "program" \in DOMAIN params THEN Strip(params["program"]) ELSE << >>
        info_type == IF "info_type" \in DOMAIN params THEN params["info_type"] ELSE "all"
        school_normalized == NormalizeSchool(school)
        program_normalized == NormalizeProgram(program)
        found == /\ school_normalized \in {<<"M","I","T">>, <<"S","t","a","n","f","o","r","d">>, <<"C","a","r","n","e","g","i","e"," ","M","e","l","l","o","n">>,
                                           <<"U","C"," ","B","e","r","k","e","l","e","y">>, <<"G","e","o","r","g","i","a"," ","T","e","c","h">>}
                 /\ program_normalized = <<"C","o","m","p","u","t","e","r"," ","S","c","i","e","n","c","e">>
    IN  IF school = << >>
        THEN {Return(Error(<<"M","i","s","s","i","n","g"," ","r","e","q","u","i","r","e","d"," ","p","a","r","a","m","e","t","e","r",":"," ","s","c","h","o","o","l">>))}
        ELSE IF program = << >>
        THEN {Return(Error(<<"M","i","s","s","i","n","g"," ","r","e","q","u","i","r","e","d"," ","p","a","r","a","m","e","t","e","r",":"," ","p","r","o","g","r","a","m">>))}
        ELSE IF ~found
        THEN {Return([success |-> TRUE, found |-> FALSE,
                      message |-> <<"I"," ","d","o","n","'","t"," ","h","a","v","e"," ","d","e","t","a","i","l","e","d"," ","i","n","f","o","r","m","a","t","i","o","n"," ","a","b","o","u","t"," ">> \o program
                                  \o <<" ","a","t"," ">> \o school \o <<" ","i","n"," ","m","y"," ","d","a","t","a","b","a","s","e",".">>,
                      suggestion |-> <<"I"," ","c","a","n"," ","p","r","o","v","i","d","e"," ","g","e","n","e","r","a","l"," ","g","u","i","d","a","n","c","e",","," ","o","r"," ","y","o","u"," ","c","a","n"," ","c","h","e","c","k"," ","t","h","e"," ","p","r","o","g","r","a","m","'","s"," ","o","f","f","i","c","i","a","l"," ","w","e","b","s","i","t","e"," ","f","o","r"," ","a","c","c","u","r","a","t","e"," ","i","n","f","o","r","m","a","t","i","o","n",".">>,
                      known_schools |-> <<<<"M","I","T">>, <<"S","t","a","n","f","o","r","d">>, <<"C","a","r","n","e","g","i","e"," ","M","e","l","l","o","n">>,
                                          <<"U","C"," ","B","e","r","k","e","l","e","y">>, <<"G","e","o","r","g","i","a"," ","T","e","c","h">>>>])}
        ELSE IF info_type \in {"all", "deadline"}
        THEN {Return(SuccessData([found |-> TRUE, school |-> school_normalized,
                                  program |-> program_normalized,
                                  deadline |-> ProgramDeadline(school_normalized)]))}
        ELSE IF info_type \in {"requirements", "funding", "ranking", "faculty"}
        THEN {Return(SuccessData([found |-> TRUE, school |-> school_normalized,
                                  program |-> program_normalized]))}
        ELSE {Return(Error(<<"U","n","k","n","o","w","n"," ","i","n","f","o","_","t","y","p","e",":"," ">> \o Str(info_type)))}

\* shortest essay the analyzer accepts
MinEssayLen == 100

\* EssayAnalyzerTool.execute: the score is computed from the essay by
\* heuristics outside the agent; its value is left open
EssayAnalyzerExecute(params) ==
    LET essay_text == IF "essay_text" \in DOMAIN params THEN Strip(params["essay_text"]) ELSE << >>
        analysis_type == IF "analysis_type" \in DOMAIN params THEN params["analysis_type"] ELSE "full"
    IN  IF essay_text = << >>
        THEN {Return(Error(<<"M","i","s","s","i","n","g"," ","r","e","q","u","i","r","e","d"," ","p","a","r","a","m","e","t","e","r",":"," ","e","s","s","a","y","_","t","e","x","t">>))}
        ELSE IF Len(essay_text) < MinEssayLen
        THEN {Return(Error(<<"E","s","s","a","y"," ","t","e","x","t"," ","i","s"," ","t","o","o"," ","s","h","o","r","t"," ","t","o"," ","a","n","a","l","y","z","e","."," ","P","l","e","a","s","e"," ","p","r","o","v","i","d","e"," ","t","h","e"," ","f","u","l","l"," ","e","s","s","a","y",".">>))}
        ELSE IF analysis_type = "full"
        THEN {Return(SuccessData([overall_score |-> s])) : s \in {0, 72}}
        ELSE IF analysis_type \in {"structure", "keywords", "length", "clarity"}
        THEN {Return(SuccessData([score |-> s])) : s \in {0, 72}}
        ELSE {Return(Error(<<"U","n","k","n","o","w","n"," ","a","n","a","l","y","s","i","s","_","t","y","p","e",":"," ">> \o Str(analysis_type)))}

(***************************************************************************)
(* Tool registry and dispatch                                              *)
(***************************************************************************)
\* the keys of the dict built by create_all_tools(db_manager): the agent
\* passes no email service, so "email_monitor" is not registered
ToolRegistry ==
    {"application_database", "program_research", "essay_analyzer", "calendar_todo",
     "program_recommender", "research_automation", "decision_analyzer"}

\* tool.execute of the registered tool
ToolExecute(tool_name, params) ==
    CASE tool_name = "application_database" -> ApplicationDatabaseExecute(params)
      [] tool_name = "program_research" -> ProgramResearchExecute(params)
      [] tool_name = "essay_analyzer" -> EssayAnalyzerExecute(params)
      [] tool_name = "calendar_todo" -> CalendarTodoExecute(params)
      [] tool_name = "program_recommender" -> ProgramRecommenderExecute(params)
      [] tool_name = "research_automation" -> ResearchAutomationExecute(params)
      [] tool_name = "decision_analyzer" -> DecisionAnalyzerExecute(params)

\* self.tools.get(tool_name): the registered tool, or None
ToolsGet(tool_name) ==
    IF tool_name \in ToolRegistry THEN tool_name ELSE None

\* _execute_tool without its try/except: a handler's exception leaves it
ExecuteTool_propagates(tool_name, params) ==
    LET tool == ToolsGet(tool_name)
    IN  IF tool = None
        THEN {[result |-> [success |-> FALSE, error |-> <<"U","n","k","n","o","w","n"," ","t","o","o","l",":"," ">> \o Str(tool_name)],
               invoked |-> FALSE, caught |-> FALSE, raised |-> FALSE]}
        ELSE {[result |-> IF o.kind = "raise"
                          THEN [success |-> FALSE, error |-> o.value]
                          ELSE o.value,
               invoked |-> TRUE, caught |-> (o.kind = "raise"), raised |-> (o.kind = "raise")]
              : o \in ToolExecute(tool, params)}

\* GradTrackAgent._execute_tool: the possible outcomes of one dispatch.
\* result: what is returned; invoked: the handler was called; caught: the
\* handler raised; raised: an exception left _execute_tool
ExecuteTool(tool_name, params) ==
    LET tool == ToolsGet(tool_name)
    IN  IF tool = None
        THEN {[result |-> [success |-> FALSE, error |-> <<"U","n","k","n","o","w","n"," ","t","o","o","l",":"," ">> \o Str(tool_name)],
               invoked |-> FALSE, caught |-> FALSE, raised |-> FALSE]}
        ELSE {[result |-> IF o.kind = "raise"
                          THEN [success |-> FALSE, error |-> o.value]
                          ELSE o.value,
               invoked |-> TRUE, caught |-> (o.kind = "raise"), raised |-> FALSE]
              : o \in ToolExecute(tool, params)}

(***************************************************************************)
(* Decision engine: _decide_tool_use                                       *)
(* The reply of the completion backend is a sequence of chunks: a          *)
(* "```json" fence, a "```" fence, prose that is not JSON, or one JSON     *)
(* document.  A JSON document is an object (a dict) or an array.           *)
(***************************************************************************)
\* a JSON object with the given members
Obj(d) ==
    [kind |-> "object", val |-> d]

\* the chunk "```json"
FenceJson ==
    [kind |-> "fence_json", val |-> << >>]

\* the chunk "```"
Fence ==
    [kind |-> "fence", val |-> << >>]

\* a chunk of text that is not JSON
Prose ==
    [kind |-> "prose", val |-> << >>]

\* a chunk holding the JSON document j
Doc(j) ==
    [kind |-> "doc", val |-> j]

\* the decision documents the backend is made to reply with
DecisionDocs ==
    [ chat |-> Obj([use_tool |-> FALSE, tool_name |-> None, tool_params |-> << >>,
                    reasoning |-> "small talk"]),
      read |-> Obj([use_tool |-> TRUE, tool_name |-> "application_database",
                    tool_params |-> [action |-> "read"], reasoning |-> "list applications"]),
      upcoming |-> Obj([use_tool |-> TRUE, tool_name |-> "calendar_todo",
                        tool_params |-> [action |-> "upcoming"], reasoning |-> "deadlines"]),
      unknown_tool |-> Obj([use_tool |-> TRUE, tool_name |-> "web_search",
                            tool_params |-> << >>, reasoning |-> "look it up"]),
      no_flag |-> Obj([reasoning |-> "not sure"]),
      null_name |-> Obj([use_tool |-> TRUE, tool_name |-> None, tool_params |-> << >>]),
      no_name |-> Obj([use_tool |-> TRUE, tool_params |-> << >>]),
      no_params |-> Obj([use_tool |-> TRUE, tool_name |-> "calendar_todo"]),
      name_without_flag |-> Obj([use_tool |-> FALSE, tool_name |-> "calendar_todo",
                                 tool_params |-> [action |-> "list"]]),
      array |-> [kind |-> "array", val |-> << >>] ]

\* response.choices[0].message.content of the decision call
DecisionReplies ==
    { <<Doc(DecisionDocs.chat)>>,
      <<FenceJson, Doc(DecisionDocs.read), Fence>>,
      <<Fence, Doc(DecisionDocs.upcoming), Fence>>,
      <<Prose, FenceJson, Doc(DecisionDocs.unknown_tool), Fence, Prose>>,
      <<Prose>>,
      <<Prose, Doc(DecisionDocs.read)>>,
      <<FenceJson, Prose, Fence>>,
      <<Doc(DecisionDocs.no_flag)>>,
      <<Doc(DecisionDocs.null_name)>>,
      <<Doc(DecisionDocs.no_name)>>,
      <<Doc(DecisionDocs.no_params)>>,
      <<Doc(DecisionDocs.name_without_flag)>>,
      <<Doc(DecisionDocs.array)>> }

\* what a call of the completion backend can do: raise, or return a reply
BackendOutcomes(replies) ==
    {[kind |-> "raise", content |-> << >>]}
    \cup {[kind |-> "reply", content |-> r] : r \in replies}

\* text.split(sep)[1].split("```")[0] where sep is the fence of kind sepkind:
\* the chunks after the first such fence, up to the next fence of any kind
BetweenFences(text, sepkind) ==
    LET first == CHOOSE i \in 1..Len(text) :
                     /\ text[i].kind = sepkind
                     /\ \A j \in 1..(i - 1) : text[j].kind # sepkind
        rest == SubSeq(text, first + 1, Len(text))
        stops == {i \in 1..Len(rest) : rest[i].kind \in {"fence", "fence_json"}}
    IN  IF stops = {} THEN rest
        ELSE SubSeq(rest, 1, (CHOOSE i \in stops : \A j \in stops : i <= j) - 1)

\* the markdown code block handling before json.loads
ExtractJson(decision_text) ==
    IF \E i \in 1..Len(decision_text) : decision_text[i].kind = "fence_json"
    THEN BetweenFences(decision_text, "fence_json")
    ELSE IF \E i \in 1..Len(decision_text) : decision_text[i].kind = "fence"
    THEN BetweenFences(decision_text, "fence")
    ELSE decision_text

\* json.loads: succeeds exactly on one document and nothing else
JsonLoads(text) ==
    IF Len(text) = 1 /\ text[1].kind = "doc"
    THEN [ok |-> TRUE, value |-> text[1].val]
    ELSE [ok |-> FALSE, value |-> Obj(<< >>)]

\* _decide_tool_use answering "no tool" when there is no client, instead of
\* consulting the keyword table
DecideToolUse_no_rules(has_client, user_message, backend) ==
    IF has_client
    THEN IF backend.kind = "raise"
         THEN [decision |-> Obj(RuleBasedDecision(user_message)), calls |-> 1,
               path |-> "rule", error |-> TRUE]
         ELSE LET parsed == JsonLoads(ExtractJson(backend.content))
              IN  IF parsed.ok
                  THEN [decision |-> parsed.value, calls |-> 1, path |-> "llm",
                        error |-> FALSE]
                  ELSE [decision |-> Obj(RuleBasedDecision(user_message)), calls |-> 1,
                        path |-> "rule", error |-> TRUE]
    ELSE [decision |-> Obj([use_tool |-> FALSE, tool_name |-> None, tool_params |-> << >>,
                            reasoning |-> "General conversation - no tool needed"]),
          calls |-> 0, path |-> "rule", error |-> FALSE]

\* GradTrackAgent._decide_tool_use.  backend: what the completion call does
\* if it is made.  decision: the value returned; calls: completion calls
\* made; path: which branch produced the decision; error: an ERROR step
\* was traced
DecideToolUse(has_client, user_message, backend) ==
    IF has_client
    THEN IF backend.kind = "raise"
         THEN [decision |-> Obj(RuleBasedDecision(user_message)), calls |-> 1,
               path |-> "rule", error |-> TRUE]
         ELSE LET parsed == JsonLoads(ExtractJson(backend.content))
              IN  IF parsed.ok
                  THEN [decision |-> parsed.value, calls |-> 1, path |-> "llm",
                        error |-> FALSE]
                  ELSE [decision |-> Obj(RuleBasedDecision(user_message)), calls |-> 1,
                        path |-> "rule", error |-> TRUE]
    ELSE [decision |-> Obj(RuleBasedDecision(user_message)), calls |-> 0,
          path |-> "rule", error |-> FALSE]

(***************************************************************************)
(* RESPOND: _generate_response and _generate_fallback_response             *)
(***************************************************************************)
\* sep.join(parts)
RECURSIVE Join(_, _)
Join(parts, sep) ==
    IF parts = << >> THEN << >>
    ELSE IF Len(parts) = 1 THEN parts[1]
    ELSE parts[1] \o sep \o Join(Tail(parts), sep)

\* the entries one tool result adds to `responses`
ResultLines(result) ==
    IF "success" \in DOMAIN result /\ result["success"]
    THEN LET msg == IF "message" \in DOMAIN result THEN result["message"] ELSE << >>
             data == IF "data" \in DOMAIN result THEN result["data"] ELSE << >>
         IN  (IF msg # << >> THEN <<msg>> ELSE << >>)
             \o (IF "applications" \in DOMAIN data /\ data["applications"] # << >>
                 THEN <<<<"Y","o","u"," ","h","a","v","e"," ">> \o NumStr(Len(data["applications"])) \o <<" ","a","p","p","l","i","c","a","t","i","o","n","s",".">>>>
                 ELSE << >>)
             \o (IF "deadline" \in DOMAIN data /\ data["deadline"] # << >>
                 THEN <<<<"D","e","a","d","l","i","n","e",":"," ">> \o data["deadline"]>>
                 ELSE << >>)
             \o (IF "overall_score" \in DOMAIN data /\ data["overall_score"] # 0
                 THEN <<<<"E","s","s","a","y"," ","s","c","o","r","e",":"," ">> \o NumStr(data["overall_score"]) \o <<"/","1","0","0">>>>
                 ELSE << >>)
    ELSE <<<<"I"," ","e","n","c","o","u","n","t","e","r","e","d"," ","a","n"," ","i","s","s","u","e",":"," ">>
           \o (IF "error" \in DOMAIN result THEN result["error"] ELSE <<"U","n","k","n","o","w","n"," ","e","r","r","o","r">>)>>

\* `responses` after the loop over tool_results
RECURSIVE ResponseLines(_)
ResponseLines(tool_results) ==
    IF tool_results = << >> THEN << >>
    ELSE ResultLines(tool_results[1].result) \o ResponseLines(Tail(tool_results))

\* a formatter that answers the closing acknowledgment whatever the tools
\* returned
GenerateFallbackResponse_generic(user_message, tool_results) ==
    <<"I","'","v","e"," ","p","r","o","c","e","s","s","e","d"," ","y","o","u","r"," ","r","e","q","u","e","s","t","."," ","I","s"," ","t","h","e","r","e"," ","a","n","y","t","h","i","n","g"," ","e","l","s","e"," ","y","o","u","'","d"," ","l","i","k","e"," ","t","o"," ","k","n","o","w","?">>

\* GradTrackAgent._generate_fallback_response
GenerateFallbackResponse(user_message, tool_results) ==
    IF tool_results = << >>
    THEN <<"I"," ","u","n","d","e","r","s","t","a","n","d"," ","y","o","u"," ","s","a","i","d",":"," ","'">> \o Take(user_message, 100)
         \o <<"'","."," ","H","o","w"," ","c","a","n"," ","I"," ","h","e","l","p"," ","y","o","u"," ","w","i","t","h"," ","y","o","u","r"," ","g","r","a","d","u","a","t","e"," ","s","c","h","o","o","l"," ","a","p","p","l","i","c","a","t","i","o","n","s"," ","t","o","d","a","y","?">>
    ELSE IF ResponseLines(tool_results) # << >>
    THEN Join(ResponseLines(tool_results), <<" ">>)
    ELSE <<"I","'","v","e"," ","p","r","o","c","e","s","s","e","d"," ","y","o","u","r"," ","r","e","q","u","e","s","t","."," ","I","s"," ","t","h","e","r","e"," ","a","n","y","t","h","i","n","g"," ","e","l","s","e"," ","y","o","u","'","d"," ","l","i","k","e"," ","t","o"," ","k","n","o","w","?">>

\* response.choices[0].message.content of the response call
ResponseReplies ==
    { <<" ","H","e","r","e"," ","i","s"," ","w","h","a","t"," ","I"," ","f","o","u","n","d","."," ","\n">> }

\* a response stage that makes the completion call a second time when the
\* first one raised
GenerateResponse_retries(has_client, user_message, tool_results, backend) ==
    IF has_client
    THEN IF backend.kind = "raise"
         THEN [response |-> GenerateFallbackResponse(user_message, tool_results),
               calls |-> 2, via |-> "fallback", error |-> TRUE]
         ELSE [response |-> Strip(backend.content), calls |-> 1, via |-> "llm",
               error |-> FALSE]
    ELSE [response |-> GenerateFallbackResponse(user_message, tool_results),
          calls |-> 0, via |-> "fallback", error |-> FALSE]

\* GradTrackAgent._generate_response.  backend: what the completion call
\* does if it is made.  via: which branch produced the text
GenerateResponse(has_client, user_message, tool_results, backend) ==
    IF has_client
    THEN IF backend.kind = "raise"
         THEN [response |-> GenerateFallbackResponse(user_message, tool_results),
               calls |-> 1, via |-> "fallback", error |-> TRUE]
         ELSE [response |-> Strip(backend.content), calls |-> 1, via |-> "llm",
               error |-> FALSE]
    ELSE [response |-> GenerateFallbackResponse(user_message, tool_results),
          calls |-> 0, via |-> "fallback", error |-> FALSE]

(***************************************************************************)
(* Memory manager: lexical fallback search, similarity search, context     *)
(***************************************************************************)
\* str.split(): the whitespace-separated tokens, in order
RECURSIVE Split(_)
Split(s) ==
    LET t == LStrip(s)
        ends == {i \in 1..Len(t) : t[i] \in {" ", "\n", "\t"}}
        n == IF ends = {} THEN Len(t) + 1 ELSE CHOOSE i \in ends : \A j \in ends : i <= j
    IN  IF t = << >> THEN << >>
        ELSE <<SubSeq(t, 1, n - 1)>> \o Split(SubSeq(t, n, Len(t)))

\* set(s.split())
WordSet(s) ==
    LET words == Split(s)
    IN  {words[i] : i \in 1..Len(words)}

\* len(s.split())
WordCount(s) ==
    Len(Split(s))

\* one step of the stable descending sort: x came before every element of
\* sorted, so it stays in front of the elements whose score equals its own
RECURSIVE InsertByScore(_, _)
InsertByScore(x, sorted) ==
    IF sorted = << >> THEN <<x>>
    ELSE IF Head(sorted).score.num > x.score.num
    THEN <<Head(sorted)>> \o InsertByScore(x, Tail(sorted))
    ELSE <<x>> \o sorted

\* list.sort(key=score, reverse=True): stable, so equal scores keep the
\* order in which the memories were scanned
RECURSIVE SortByScore(_)
SortByScore(scored) ==
    IF scored = << >> THEN << >>
    ELSE InsertByScore(Head(scored), SortByScore(Tail(scored)))

\* the loop of _search_fallback: the scored candidates, in scan order.
\* A score overlap / len(query_words) is kept as numerator and denominator
RECURSIVE ScoreMemories(_, _, _)
ScoreMemories(memories, query_words, memory_type) ==
    IF memories = << >> THEN << >>
    ELSE LET memory == Head(memories)
             rest == ScoreMemories(Tail(memories), query_words, memory_type)
             overlap == Cardinality(query_words \cap WordSet(Lower(memory.content)))
         IN  IF memory_type # None /\ Get(memory.metadata, "type") # memory_type
             THEN rest
             ELSE IF overlap > 0
             THEN <<[content |-> memory.content, metadata |-> memory.metadata,
                     id |-> memory.id,
                     score |-> [num |-> overlap, den |-> Cardinality(query_words)]]>>
                  \o rest
             ELSE rest

\* a lexical search that answers the candidates in scan order, unsorted
SearchFallback_scan_order(memories, query, limit, memory_type) ==
    Take(ScoreMemories(memories, WordSet(Lower(query)), memory_type), limit)

\* MemoryManager._search_fallback
SearchFallback(memories, query, limit, memory_type) ==
    Take(SortByScore(ScoreMemories(memories, WordSet(Lower(query)), memory_type)), limit)

\* the sequences without repetition of length n over the set S
RECURSIVE Arrangements(_, _)
Arrangements(S, n) ==
    IF n = 0 THEN {<< >>}
    ELSE UNION {{<<x>> \o r : r \in Arrangements(S \ {x}, n - 1)} : x \in S}

\* collection.query(query_texts=[query], n_results=limit, where=...): the
\* embedding distances are the vector store's; any ranking of the documents
\* of the requested type can come back, or the call raises
CollectionQuery(docs, limit, memory_type) ==
    LET matching == {i \in 1..Len(docs) :
                        memory_type = None \/ Get(docs[i].metadata, "type") = memory_type}
        n == IF Cardinality(matching) < limit THEN Cardinality(matching) ELSE limit
    IN  {[kind |-> "raise", ranking |-> << >>]}
        \cup {[kind |-> "ok", ranking |-> r] : r \in Arrangements(matching, n)}

\* a search that answers nothing when collection.query raises
SearchSimilar_empty_on_error(has_collection, docs, memories, query, limit, memory_type, outcome) ==
    IF has_collection /\ outcome.kind = "ok"
    THEN [i \in 1..Len(outcome.ranking) |->
             [content |-> docs[outcome.ranking[i]].content,
              metadata |-> docs[outcome.ranking[i]].metadata,
              id |-> docs[outcome.ranking[i]].id,
              distance |-> i]]
    ELSE IF has_collection THEN << >>
    ELSE SearchFallback(memories, query, limit, memory_type)

\* MemoryManager.search_similar.  outcome: what collection.query does if it
\* is called
SearchSimilar(has_collection, docs, memories, query, limit, memory_type, outcome) ==
    IF has_collection /\ outcome.kind = "ok"
    THEN [i \in 1..Len(outcome.ranking) |->
             [content |-> docs[outcome.ranking[i]].content,
              metadata |-> docs[outcome.ranking[i]].metadata,
              id |-> docs[outcome.ranking[i]].id,
              distance |-> i]]
    ELSE SearchFallback(memories, query, limit, memory_type)

\* character caps of get_relevant_context
RecentCap == 300
SimilarCap == 400
PrefCap == 200
\* messages of the buffer shown as recent conversation
RecentMessages == 6
\* default max_tokens of get_relevant_context
DefaultMaxTokens == 2000

\* a slice that keeps one element more than asked for
LastN_one_more(s, n) ==
    IF Len(s) <= n + 1 THEN s ELSE SubSeq(s, Len(s) - n, Len(s))

\* s[-n:]
LastN(s, n) ==
    IF Len(s) <= n THEN s ELSE SubSeq(s, Len(s) - n + 1, Len(s))

\* sum(len(p.split()) for p in parts)
RECURSIVE SumWords(_)
SumWords(parts) ==
    IF parts = << >> THEN 0 ELSE WordCount(parts[1]) + SumWords(Tail(parts))

\* the "Role: content" lines of the recent conversation
RecentLines(recent) ==
    [i \in 1..Len(recent) |->
        (IF recent[i].role = "user" THEN <<"U","s","e","r">> ELSE <<"Y","o","u">>)
        \o <<":"," ">> \o Take(recent[i].content, RecentCap)]

\* a stage is entered while the running estimate is below the budget
\* ("if estimated_tokens < max_tokens", estimate in tenths)
StageOpen_always(ctx, max_tokens) ==
    TRUE

StageOpen(ctx, max_tokens) ==
    ctx.tenths < max_tokens * 10

\* one retrieval loop of get_relevant_context.  The estimate is kept in
\* tenths of a token (each word adds 13); count_truncated says whether the
\* words of the truncated or of the whole content are counted
RECURSIVE AddMemories(_, _, _, _, _)
AddMemories(ctx, mems, cap, count_truncated, max_tokens) ==
    IF mems = << >> \/ ctx.tenths >= max_tokens * 10 THEN ctx
    ELSE LET content == Take(mems[1].content, cap)
             counted == IF count_truncated THEN content ELSE mems[1].content
         IN  AddMemories([parts |-> Append(ctx.parts, content),
                          tenths |-> ctx.tenths + 13 * WordCount(counted)],
                         Tail(mems), cap, count_truncated, max_tokens)

\* first stage of get_relevant_context: the recent conversation
ContextRecent(buffer) ==
    IF buffer = << >> THEN [parts |-> << >>, tenths |-> 0]
    ELSE LET parts == <<<<"=","=","="," ","R","e","c","e","n","t"," ","C","o","n","v","e","r","s","a","t","i","o","n"," ","=","=","=">>>>
                      \o RecentLines(LastN(buffer, RecentMessages))
         IN  [parts |-> parts, tenths |-> 13 * SumWords(parts)]

\* a second stage that leaves out every record that does not fit the budget
\* and goes on with the next one
ContextSimilar_fitting(ctx, similar, max_tokens) ==
    IF StageOpen(ctx, max_tokens) /\ similar # << >>
    THEN LET Fits(m) == ctx.tenths + 13 * WordCount(Take(m.content, SimilarCap))
                           <= max_tokens * 10
             kept == SelectSeq(similar, Fits)
             items == [i \in 1..Len(kept) |-> Take(kept[i].content, SimilarCap)]
         IN  [parts |-> Append(ctx.parts, <<"\n","=","=","="," ","R","e","l","a","t","e","d"," ","P","a","s","t"," ","C","o","n","v","e","r","s","a","t","i","o","n","s"," ","=","=","=">>) \o items,
              tenths |-> ctx.tenths + 13 * SumWords(items)]
    ELSE ctx

\* second stage: related past conversations (similar: the search result)
ContextSimilar(ctx, similar, max_tokens) ==
    IF StageOpen(ctx, max_tokens) /\ similar # << >>
    THEN AddMemories([parts |-> Append(ctx.parts, <<"\n","=","=","="," ","R","e","l","a","t","e","d"," ","P","a","s","t"," ","C","o","n","v","e","r","s","a","t","i","o","n","s"," ","=","=","=">>),
                      tenths |-> ctx.tenths],
                     similar, SimilarCap, TRUE, max_tokens)
    ELSE ctx

\* third stage: user preferences (prefs: the search result)
ContextPrefs(ctx, prefs, max_tokens) ==
    IF StageOpen(ctx, max_tokens) /\ prefs # << >>
    THEN AddMemories([parts |-> Append(ctx.parts, <<"\n","=","=","="," ","U","s","e","r"," ","P","r","e","f","e","r","e","n","c","e","s"," ","=","=","=">>),
                      tenths |-> ctx.tenths],
                     prefs, PrefCap, FALSE, max_tokens)
    ELSE ctx

\* MemoryManager.get_relevant_context, given what the two searches return
GetRelevantContext(buffer, similar, prefs, max_tokens) ==
    Join(ContextPrefs(ContextSimilar(ContextRecent(buffer), similar, max_tokens),
                      prefs, max_tokens).parts,
         <<"\n">>)

(***************************************************************************)
(* Memory manager: storing                                                 *)
(***************************************************************************)
\* messages the conversation buffer keeps
BufferLimit == 20
\* characters of a message kept in the metadata of a conversation record
MetadataCap == 500

\* {**base, **extra}: the keys of extra win
Merge(base, extra) ==
    [k \in DOMAIN base \cup DOMAIN extra |->
        IF k \in DOMAIN extra THEN extra[k] ELSE base[k]]

\* f"{memory_type}_{now:%Y%m%d_%H%M%S_%f}": the type and the clock reading
MemoryId(memory_type, now) ==
    <<memory_type, now>>

\* what collection.add can do: store the document, or raise
AddOutcomes ==
    {"ok", "raise"}

\* what writing the fallback file can do: succeed, or fail and be swallowed
SaveOutcomes ==
    {"ok", "fail"}

\* a store that puts the new record in front of the older ones
StoreMemory_newest_first(mem, content, memory_type, metadata, session_id, now, has_collection, add, save) ==
    LET memory_id == MemoryId(memory_type, now)
        record == [id |-> memory_id, content |-> content,
                   metadata |-> Merge([type |-> memory_type, session_id |-> session_id,
                                       timestamp |-> now], metadata)]
        appended == <<record>> \o mem.memories
    IN  IF has_collection /\ add = "ok"
        THEN [docs |-> <<record>> \o mem.docs,
              memories |-> mem.memories, file |-> mem.file, id |-> memory_id]
        ELSE [docs |-> mem.docs, memories |-> appended,
              file |-> IF save = "ok" THEN [exists |-> TRUE, records |-> appended] ELSE mem.file,
              id |-> memory_id]

\* MemoryManager.store_memory with _store_fallback and _save_fallback.
\* mem: the stores (docs: the collection, memories: _fallback_memories,
\* file: fallback_memories.json); add, save: what the collaborators do.
\* collection.add does not accept an id the collection already holds: it
\* leaves the collection as it is (add = "ok") or raises (add = "raise")
StoreMemory(mem, content, memory_type, metadata, session_id, now, has_collection, add, save) ==
    LET memory_id == MemoryId(memory_type, now)
        record == [id |-> memory_id, content |-> content,
                   metadata |-> Merge([type |-> memory_type, session_id |-> session_id,
                                       timestamp |-> now], metadata)]
        appended == Append(mem.memories, record)
        held == \E i \in 1..Len(mem.docs) : mem.docs[i].id = memory_id
    IN  IF has_collection /\ add = "ok"
        THEN [docs |-> IF held THEN mem.docs ELSE Append(mem.docs, record),
              memories |-> mem.memories, file |-> mem.file, id |-> memory_id]
        ELSE [docs |-> mem.docs, memories |-> appended,
              file |-> IF save = "ok" THEN [exists |-> TRUE, records |-> appended]
                       ELSE mem.file,
              id |-> memory_id]

\* a record that never names the tools of its turn
JoinNames_blank(tools_used) ==
    << >>

\* ",".join(tools_used) if tools_used else ""
JoinNames(tools_used) ==
    Join([i \in 1..Len(tools_used) |-> Str(tools_used[i])], <<",">>)

\* a window that keeps the first BufferLimit messages
StoreConversation_keep_first(mem, buffer, user_message, agent_response, tools_used, session_id, now, has_collection, add, save) ==
    LET s == StoreMemory(mem, <<"U","s","e","r",":"," ">> \o user_message \o <<"\n","A","s","s","i","s","t","a","n","t",":"," ">> \o agent_response,
                         "conversation",
                         [user_message |-> Take(user_message, MetadataCap),
                          agent_response |-> Take(agent_response, MetadataCap),
                          tools_used |-> JoinNames(tools_used)],
                         session_id, now, has_collection, add, save)
    IN  [raised |-> FALSE, mem |-> s,
         buffer |-> Take(buffer \o <<[role |-> "user", content |-> user_message],
                                     [role |-> "assistant", content |-> agent_response]>>,
                         BufferLimit)]

\* MemoryManager.store_conversation.  raised: ",".join met an entry that is
\* not a string (TypeError), before anything was stored
StoreConversation(mem, buffer, user_message, agent_response, tools_used, session_id, now, has_collection, add, save) ==
    IF \E i \in 1..Len(tools_used) : tools_used[i] = None
    THEN [raised |-> TRUE, mem |-> mem, buffer |-> buffer]
    ELSE [raised |-> FALSE,
          mem |-> StoreMemory(mem,
                      <<"U","s","e","r",":"," ">> \o user_message \o <<"\n","A","s","s","i","s","t","a","n","t",":"," ">> \o agent_response,
                      "conversation",
                      [user_message |-> Take(user_message, MetadataCap),
                       agent_response |-> Take(agent_response, MetadataCap),
                       tools_used |-> JoinNames(tools_used)],
                      session_id, now, has_collection, add, save),
          buffer |-> LastN(buffer \o <<[role |-> "user", content |-> user_message],
                                       [role |-> "assistant", content |-> agent_response]>>,
                           BufferLimit)]

(***************************************************************************)
(* The agent: one GradTrackAgent with its MemoryManager, processing turns  *)
(***************************************************************************)
VARIABLES
    client,                \* agent.client is set (completion backend present)
    collection,            \* memory.collection is set (vector store present)
    pc,                    \* where process_message is: idle, the stage to
                           \* run next, done (returned) or raised
    turns,                 \* turns started so far
    clock,                 \* the reading of datetime.now()
    user_message,          \* arguments of the current process_message call
    session_id,
    memory_context,        \* locals of process_message
    tool_decision,
    tools_used,
    tool_results,
    response,
    last_reasoning_trace,  \* agent.last_reasoning_trace
    result,                \* what the last process_message call gave its caller
    docs,                  \* documents of the vector store collection
    memories,              \* memory._fallback_memories
    file,                  \* contents of fallback_memories.json
    conversation_buffer,   \* memory.conversation_buffer
    stages,                \* stages the current turn has entered, in order
    calls,                 \* what the current turn did to its collaborators:
                           \* completion calls in DECIDE and RESPOND, tool
                           \* dispatches, handler invocations, handler
                           \* exceptions caught, and the branch that produced
                           \* the decision and the response
    requests,              \* chat requests received whose process_message
                           \* call has not started
    suspended              \* process_message calls that wait at an await,
                           \* each with its position and its locals

vars ==
    <<client, collection, pc, turns, clock, user_message, session_id, memory_context,
      tool_decision, tools_used, tool_results, response, last_reasoning_trace, result,
      docs, memories, file, conversation_buffer, stages, calls, requests, suspended>>

\* the messages users send in the modelled turns
TurnMessages ==
    { <<"h","e","l","l","o">>, <<"A","d","d"," ","M","I","T">>, <<"W","h","a","t","'","s"," ","d","u","e"," ","t","h","i","s"," ","w","e","e","k","?">>,
      <<"A","d","d"," ","M","I","T"," ","C","o","m","p","u","t","e","r"," ","S","c","i","e","n","c","e"," ","P","h","D",","," ","d","e","a","d","l","i","n","e"," ","2","0","2","5","-","1","2","-","1","5">> }

\* the session ids of the modelled turns
SessionIds ==
    {"default"}

\* db.get_summary_for_agent() of an empty database
AppSummary ==
    <<"T","o","t","a","l"," ","A","p","p","l","i","c","a","t","i","o","n","s",":"," ","0">>

\* GradTrackAgent._trace: the entry appended to last_reasoning_trace
TraceEntry(step, message, now) ==
    [step |-> step, message |-> message, timestamp |-> now]

\* no call made yet in this turn
NoCalls ==
    [decide |-> 0, respond |-> 0, dispatch |-> 0, handler |-> 0, caught |-> 0,
     path |-> "none", via |-> "none"]

\* state after GradTrackAgent.__init__ and MemoryManager.initialize on an
\* empty persist directory
Init ==
    /\ client \in BOOLEAN
    /\ collection \in BOOLEAN
    /\ pc = "idle"
    /\ turns = 0
    /\ clock = 0
    /\ user_message = << >>
    /\ session_id = "default"
    /\ memory_context = << >>
    /\ tool_decision = Obj(<< >>)
    /\ tools_used = << >>
    /\ tool_results = << >>
    /\ response = << >>
    /\ last_reasoning_trace = << >>
    /\ result = [kind |-> "none"]
    /\ docs = << >>
    /\ memories = << >>
    /\ file = [exists |-> FALSE, records |-> << >>]
    /\ conversation_buffer = << >>
    /\ stages = << >>
    /\ calls = NoCalls
    /\ requests = 0
    /\ suspended = << >>

\* process_message entering ACT whatever the decision says
NextStage_always_act(decision) ==
    "ACT"

\* process_message, line 185: ACT is entered when use_tool is true
NextStage(decision) ==
    IF decision.val["use_tool"] THEN "ACT" ELSE "RESPOND"

\* process_message, lines 154-169: a call starts with fresh locals, resets
\* the trace and runs OBSERVE
BeginTurn ==
    /\ \E m \in TurnMessages, s \in SessionIds,
          q1 \in CollectionQuery(docs, 3, "conversation"),
          q2 \in CollectionQuery(docs, 2, "preference") :
          LET similar == SearchSimilar(collection, docs, memories, m, 3, "conversation", q1)
              prefs == SearchSimilar(collection, docs, memories, m, 2, "preference", q2)
              context == GetRelevantContext(conversation_buffer, similar, prefs,
                                            DefaultMaxTokens)
          IN  /\ collection \/ (q1.kind = "raise" /\ q2.kind = "raise")
              /\ user_message' = m
              /\ session_id' = s
              /\ memory_context' = context
              /\ last_reasoning_trace' =
                    << TraceEntry("OBSERVE", <<"Retrieving relevant context from memory...">>, clock),
                       TraceEntry("OBSERVE", <<"Retrieved context: {} chars from memory, {} chars from database",
                                               Len(context), Len(AppSummary)>>, clock) >>
    /\ tools_used' = << >>
    /\ tool_results' = << >>
    /\ turns' = turns + 1
    /\ stages' = <<"OBSERVE">>
    /\ calls' = NoCalls
    /\ result' = [kind |-> "none"]
    /\ tool_decision' = Obj(<< >>)
    /\ response' = << >>
    /\ pc' = "DECIDE"
    /\ UNCHANGED <<client, collection, clock, docs, memories, file, conversation_buffer>>

\* a call of process_message starts when no other call is running
Observe ==
    /\ pc \in {"idle", "done", "raised"}
    /\ turns < MaxTurns
    /\ BeginTurn
    /\ UNCHANGED <<requests, suspended>>

\* process_message, lines 174-180: THINK
Decide ==
    /\ pc = "DECIDE"
    /\ \E backend \in BackendOutcomes(DecisionReplies) :
          LET d == DecideToolUse(client, user_message, backend)
              decision == d.decision
              traced == last_reasoning_trace
                        \o <<TraceEntry("THINK", <<"Analyzing user intent and deciding on action...">>, clock)>>
                        \o (IF d.error
                            THEN <<TraceEntry("ERROR", <<"LLM decision failed: {}">>, clock)>>
                            ELSE << >>)
          IN  /\ client \/ backend.kind = "raise"
              /\ tool_decision' = decision
              /\ calls' = [calls EXCEPT !.decide = d.calls, !.path = d.path]
              /\ IF decision.kind # "object"
                 THEN /\ pc' = "raised"
                      /\ result' = [kind |-> "raised", exception |-> "TypeError"]
                      /\ last_reasoning_trace' = traced
                 ELSE IF "use_tool" \notin DOMAIN decision.val
                 THEN /\ pc' = "raised"
                      /\ result' = [kind |-> "raised", exception |-> "KeyError"]
                      /\ last_reasoning_trace' = traced
                 ELSE /\ pc' = NextStage(decision)
                      /\ result' = result
                      /\ last_reasoning_trace' =
                            traced
                            \o <<TraceEntry("THINK",
                                            <<"Decision: {}",
                                              IF decision.val["use_tool"] THEN "Use tool"
                                              ELSE "Direct response">>, clock)>>
                            \o (IF "reasoning" \in DOMAIN decision.val
                                THEN <<TraceEntry("THINK", <<"Reasoning: {}",
                                                             decision.val["reasoning"]>>, clock)>>
                                ELSE << >>)
    /\ stages' = Append(stages, "DECIDE")
    /\ UNCHANGED <<client, collection, turns, clock, user_message, session_id,
                   memory_context, tools_used, tool_results, response, docs, memories,
                   file, conversation_buffer>>
    /\ UNCHANGED <<requests, suspended>>

\* process_message, lines 185-202: ACT
Act ==
    /\ pc = "ACT"
    /\ stages' = Append(stages, "ACT")
    /\ IF {"tool_name", "tool_params"} \subseteq DOMAIN tool_decision.val
       THEN \E o \in ExecuteTool(tool_decision.val["tool_name"],
                                 tool_decision.val["tool_params"]) :
               LET tool_name == tool_decision.val["tool_name"]
                   tool_params == tool_decision.val["tool_params"]
                   traced == last_reasoning_trace
                             \o <<TraceEntry("ACT", <<"Executing tool: {}", tool_name>>, clock),
                                  TraceEntry("ACT", <<"Parameters: {}", tool_params>>, clock)>>
               IN  /\ calls' = [calls EXCEPT !.dispatch = @ + 1,
                                             !.handler = @ + (IF o.invoked THEN 1 ELSE 0),
                                             !.caught = @ + (IF o.caught THEN 1 ELSE 0)]
                   /\ IF o.raised
                      THEN /\ pc' = "raised"
                           /\ result' = [kind |-> "raised", exception |-> "Exception"]
                           /\ last_reasoning_trace' = traced
                           /\ UNCHANGED <<tools_used, tool_results>>
                      ELSE /\ pc' = "RESPOND"
                           /\ result' = result
                           /\ last_reasoning_trace' =
                                 Append(traced, TraceEntry("OBSERVE",
                                                           <<"Tool result: {}...", o.result>>,
                                                           clock))
                           /\ tools_used' = Append(tools_used, tool_name)
                           /\ tool_results' = Append(tool_results,
                                                     [tool |-> tool_name,
                                                      params |-> tool_params,
                                                      result |-> o.result])
       ELSE /\ pc' = "raised"
            /\ result' = [kind |-> "raised", exception |-> "KeyError"]
            /\ UNCHANGED <<calls, last_reasoning_trace, tools_used, tool_results>>
    /\ UNCHANGED <<client, collection, turns, clock, user_message, session_id,
                   memory_context, tool_decision, response, docs, memories, file,
                   conversation_buffer>>
    /\ UNCHANGED <<requests, suspended>>

\* process_message, lines 207-214: RESPOND
Respond ==
    /\ pc = "RESPOND"
    /\ \E backend \in BackendOutcomes(ResponseReplies) :
          LET r == GenerateResponse(client, user_message, tool_results, backend)
          IN  /\ client \/ backend.kind = "raise"
              /\ response' = r.response
              /\ calls' = [calls EXCEPT !.respond = r.calls, !.via = r.via]
              /\ last_reasoning_trace' =
                    last_reasoning_trace
                    \o <<TraceEntry("RESPOND", <<"Generating response to user...">>, clock)>>
                    \o (IF r.error
                        THEN <<TraceEntry("ERROR", <<"LLM response generation failed: {}">>, clock)>>
                        ELSE << >>)
    /\ pc' = "STORE"
    /\ stages' = Append(stages, "RESPOND")
    /\ UNCHANGED <<client, collection, turns, clock, user_message, session_id,
                   memory_context, tool_decision, tools_used, tool_results, result, docs,
                   memories, file, conversation_buffer>>
    /\ UNCHANGED <<requests, suspended>>

\* process_message, lines 219-232: STORE and return
Store ==
    /\ pc = "STORE"
    /\ \E add \in AddOutcomes, save \in SaveOutcomes :
          LET traced == Append(last_reasoning_trace,
                               TraceEntry("STORE", <<"Saving interaction to long-term memory...">>, clock))
              s == StoreConversation([docs |-> docs, memories |-> memories, file |-> file],
                                     conversation_buffer, user_message, response,
                                     tools_used, session_id, clock, collection, add, save)
          IN  /\ collection \/ add = "raise"
              /\ (collection /\ add = "ok") => save = "ok"
              /\ last_reasoning_trace' = traced
              /\ IF s.raised
                 THEN /\ add = "raise" /\ save = "ok"
                      /\ pc' = "raised"
                      /\ result' = [kind |-> "raised", exception |-> "TypeError"]
                      /\ UNCHANGED <<docs, memories, file, conversation_buffer>>
                 ELSE /\ pc' = "done"
                      /\ result' = [kind |-> "returned", response |-> response,
                                    tools_used |-> tools_used,
                                    reasoning_steps |-> traced]
                      /\ docs' = s.mem.docs
                      /\ memories' = s.mem.memories
                      /\ file' = s.mem.file
                      /\ conversation_buffer' = s.buffer
    /\ stages' = Append(stages, "STORE")
    /\ UNCHANGED <<client, collection, turns, clock, user_message, session_id,
                   memory_context, tool_decision, tools_used, tool_results, response, calls>>
    /\ UNCHANGED <<requests, suspended>>

\* time passes between two turns
Tick ==
    /\ pc \in {"idle", "done", "raised"}
    /\ clock < MaxClock
    /\ clock' = clock + 1
    /\ UNCHANGED <<client, collection, pc, turns, user_message, session_id,
                   memory_context, tool_decision, tools_used, tool_results, response,
                   last_reasoning_trace, result, docs, memories, file,
                   conversation_buffer, stages, calls>>
    /\ UNCHANGED <<requests, suspended>>

Next ==
    \/ Observe
    \/ Decide
    \/ Act
    \/ Respond
    \/ Store
    \/ Tick

Spec ==
    Init /\ [][Next]_vars

(***************************************************************************)
(* The decision engine on its own: a turn that has run OBSERVE on an empty *)
(* memory, for every message of the input space, taking the DECIDE step    *)
(***************************************************************************)
InitDecide ==
    /\ client \in BOOLEAN
    /\ collection = FALSE
    /\ pc = "DECIDE"
    /\ turns = 1
    /\ clock = 0
    /\ user_message \in Messages
    /\ session_id = "default"
    /\ memory_context = << >>
    /\ tool_decision = Obj(<< >>)
    /\ tools_used = << >>
    /\ tool_results = << >>
    /\ response = << >>
    /\ last_reasoning_trace =
          << TraceEntry("OBSERVE", <<"Retrieving relevant context from memory...">>, 0),
             TraceEntry("OBSERVE", <<"Retrieved context: {} chars from memory, {} chars from database",
                                     0, Len(AppSummary)>>, 0) >>
    /\ result = [kind |-> "none"]
    /\ docs = << >>
    /\ memories = << >>
    /\ file = [exists |-> FALSE, records |-> << >>]
    /\ conversation_buffer = << >>
    /\ stages = <<"OBSERVE">>
    /\ calls = NoCalls
    /\ requests = 0
    /\ suspended = << >>

NextDecide ==
    Decide

SpecDecide ==
    InitDecide /\ [][NextDecide]_vars

(***************************************************************************)
(* The memory manager on its own: one MemoryManager whose public methods   *)
(* are called in any order: store_memory, store_conversation,              *)
(* search_similar, get_recent_conversations and get_relevant_context       *)
(***************************************************************************)
\* records a run of the memory manager stores
MaxRecords == 2

\* a body longer than every character cap of get_relevant_context: the word
\* "deadline" followed by one long word
LongBody ==
    <<"d","e","a","d","l","i","n","e"," ">> \o [i \in 1..400 |-> "x"]

\* the (content, memory_type) arguments of store_memory
StoreInputs ==
    { <<<<"d","e","a","d","l","i","n","e"," ","t","a","s","k">>, "conversation">>, <<<<"D","e","a","d","l","i","n","e">>, "conversation">>,
      <<LongBody, "preference">> }

\* the user_message argument of store_conversation
WindowMessages ==
    { LongBody }

\* the agent_response argument of store_conversation
WindowResponse ==
    <<"o","k">>

\* the session_id argument of store_conversation
MemorySessions ==
    {"s1", "s2"}

\* the query argument of search_similar
Queries ==
    { <<"d","e","a","d","l","i","n","e"," ","t","a","s","k">>, <<"D","e","a","d","l","i","n","e">> }

\* the query argument of get_relevant_context
BuildQueries ==
    { <<"D","e","a","d","l","i","n","e">> }

\* the limit argument of search_similar and get_recent_conversations
Limits ==
    {1, 5}

\* the memory_type argument of search_similar
TypeFilters ==
    {None, "preference"}

\* the max_tokens argument of get_relevant_context
Budgets ==
    {0, 2, DefaultMaxTokens}

\* one step of the stable sort by timestamp, newest first
RECURSIVE InsertByTimestamp(_, _)
InsertByTimestamp(x, sorted) ==
    IF sorted = << >> THEN <<x>>
    ELSE IF Head(sorted).metadata["timestamp"] > x.metadata["timestamp"]
    THEN <<Head(sorted)>> \o InsertByTimestamp(x, Tail(sorted))
    ELSE <<x>> \o sorted

\* conversations.sort(key=timestamp, reverse=True)
RECURSIVE SortByTimestamp(_)
SortByTimestamp(conversations) ==
    IF conversations = << >> THEN << >>
    ELSE InsertByTimestamp(Head(conversations), SortByTimestamp(Tail(conversations)))

\* [m for m in memories if m["metadata"]["type"] == memory_type]
RECURSIVE OfType(_, _)
OfType(mems, memory_type) ==
    IF mems = << >> THEN << >>
    ELSE (IF Get(Head(mems).metadata, "type") = memory_type
          THEN <<Head(mems)>> ELSE << >>)
         \o OfType(Tail(mems), memory_type)

\* MemoryManager.get_recent_conversations.  outcome: what collection.get
\* does if it is called; an empty answer of the collection falls through
\* to the fallback list
GetRecentConversations(has_collection, documents, mems, limit, outcome) ==
    IF has_collection /\ outcome.kind = "ok" /\ outcome.ranking # << >>
    THEN Take(SortByTimestamp([i \in 1..Len(outcome.ranking) |->
                                  [content |-> documents[outcome.ranking[i]].content,
                                   metadata |-> documents[outcome.ranking[i]].metadata]]),
              limit)
    ELSE Take(SortByTimestamp(OfType(mems, "conversation")), limit)

\* state after MemoryManager.initialize on an empty persist directory
InitMemory ==
    /\ client = FALSE
    /\ collection \in BOOLEAN
    /\ pc = "memory"
    /\ turns = 0
    /\ clock = 0
    /\ user_message = << >>
    /\ session_id = "default"
    /\ memory_context = << >>
    /\ tool_decision = Obj(<< >>)
    /\ tools_used = << >>
    /\ tool_results = << >>
    /\ response = << >>
    /\ last_reasoning_trace = << >>
    /\ result = [kind |-> "none"]
    /\ docs = << >>
    /\ memories = << >>
    /\ file = [exists |-> FALSE, records |-> << >>]
    /\ conversation_buffer = << >>
    /\ stages = << >>
    /\ calls = NoCalls
    /\ requests = 0
    /\ suspended = << >>

\* a call of store_memory(content, memory_type); the fallback file can be
\* written
StoreMemoryOp ==
    /\ pc = "memory"
    /\ pc' = "answered"
    /\ Len(docs) + Len(memories) < MaxRecords
    /\ \E input \in StoreInputs, add \in AddOutcomes :
          LET s == StoreMemory([docs |-> docs, memories |-> memories, file |-> file],
                               input[1], input[2], << >>, "default", clock,
                               collection, add, "ok")
          IN  /\ collection \/ add = "raise"
              /\ docs' = s.docs
              /\ memories' = s.memories
              /\ file' = s.file
              /\ result' = [kind |-> "stored", content |-> input[1],
                            memory_type |-> input[2], id |-> s.id]
    /\ UNCHANGED <<client, collection, turns, clock, user_message, session_id,
                   memory_context, tool_decision, tools_used, tool_results, response,
                   last_reasoning_trace, conversation_buffer, stages, calls>>
    /\ UNCHANGED <<requests, suspended>>

\* a call of store_conversation(user_message, agent_response, [], session_id);
\* the fallback file can be written
StoreConversationOp ==
    /\ pc = "memory"
    /\ pc' = "answered"
    /\ Len(docs) + Len(memories) < MaxRecords
    /\ \E m \in WindowMessages, sid \in MemorySessions, add \in AddOutcomes :
          LET s == StoreConversation([docs |-> docs, memories |-> memories, file |-> file],
                                     conversation_buffer, m, WindowResponse, << >>, sid,
                                     clock, collection, add, "ok")
          IN  /\ collection \/ add = "raise"
              /\ docs' = s.mem.docs
              /\ memories' = s.mem.memories
              /\ file' = s.mem.file
              /\ conversation_buffer' = s.buffer
              /\ result' = [kind |-> "turn", user_message |-> m, session_id |-> sid,
                            id |-> s.mem.id]
    /\ UNCHANGED <<client, collection, turns, clock, user_message, session_id,
                   memory_context, tool_decision, tools_used, tool_results, response,
                   last_reasoning_trace, stages, calls>>
    /\ UNCHANGED <<requests, suspended>>

\* a call of search_similar(query, limit, memory_type)
SearchOp ==
    /\ pc = "memory"
    /\ pc' = "answered"
    /\ \E query \in Queries, limit \in Limits, memory_type \in TypeFilters :
       \E outcome \in CollectionQuery(docs, limit, memory_type) :
          /\ collection \/ outcome.kind = "raise"
          /\ result' = [kind |-> "search", query |-> query, limit |-> limit,
                        memory_type |-> memory_type,
                        path |-> IF collection /\ outcome.kind = "ok"
                                 THEN "embedding" ELSE "lexical",
                        found |-> SearchSimilar(collection, docs, memories, query, limit,
                                                memory_type, outcome)]
    /\ UNCHANGED <<client, collection, turns, clock, user_message, session_id,
                   memory_context, tool_decision, tools_used, tool_results, response,
                   last_reasoning_trace, docs, memories, file, conversation_buffer,
                   stages, calls>>
    /\ UNCHANGED <<requests, suspended>>

\* a call of get_recent_conversations(limit)
RecentOp ==
    /\ pc = "memory"
    /\ pc' = "answered"
    /\ \E limit \in Limits :
       \E outcome \in CollectionQuery(docs, limit, "conversation") :
          /\ collection \/ outcome.kind = "raise"
          /\ result' = [kind |-> "recent", limit |-> limit,
                        path |-> IF collection /\ outcome.kind = "ok"
                                    /\ outcome.ranking # << >>
                                 THEN "collection" ELSE "fallback",
                        found |-> GetRecentConversations(collection, docs, memories,
                                                         limit, outcome)]
    /\ UNCHANGED <<client, collection, turns, clock, user_message, session_id,
                   memory_context, tool_decision, tools_used, tool_results, response,
                   last_reasoning_trace, docs, memories, file, conversation_buffer,
                   stages, calls>>
    /\ UNCHANGED <<requests, suspended>>

\* a call of get_relevant_context(query, max_tokens=budget): the method has
\* no session argument.  A search is issued only when its stage is entered;
\* queries lists the searches issued
BuildOp ==
    /\ pc = "memory"
    /\ pc' = "answered"
    /\ \E query \in BuildQueries, budget \in Budgets,
          q1 \in CollectionQuery(docs, 3, "conversation"),
          q2 \in CollectionQuery(docs, 2, "preference") :
          LET recent == ContextRecent(conversation_buffer)
              ask1 == StageOpen(recent, budget)
              similar == IF ask1
                         THEN SearchSimilar(collection, docs, memories, query, 3,
                                            "conversation", q1)
                         ELSE << >>
              related == ContextSimilar(recent, similar, budget)
              ask2 == StageOpen(related, budget)
              prefs == IF ask2
                       THEN SearchSimilar(collection, docs, memories, query, 2,
                                          "preference", q2)
                       ELSE << >>
              built == ContextPrefs(related, prefs, budget)
          IN  /\ (collection /\ ask1) \/ q1.kind = "raise"
              /\ (collection /\ ask2) \/ q2.kind = "raise"
              /\ result' = [kind |-> "context", query |-> query, max_tokens |-> budget,
                            queries |-> (IF ask1 THEN <<"conversation">> ELSE << >>)
                                        \o (IF ask2 THEN <<"preference">> ELSE << >>),
                            similar |-> similar, prefs |-> prefs,
                            parts |-> built.parts,
                            context |-> GetRelevantContext(conversation_buffer, similar,
                                                           prefs, budget)]
    /\ UNCHANGED <<client, collection, turns, clock, user_message, session_id,
                   memory_context, tool_decision, tools_used, tool_results, response,
                   last_reasoning_trace, docs, memories, file, conversation_buffer,
                   stages, calls>>
    /\ UNCHANGED <<requests, suspended>>

\* the caller takes the answer of the call
TakeAnswer ==
    /\ pc = "answered"
    /\ pc' = "memory"
    /\ result' = [kind |-> "none"]
    /\ UNCHANGED <<client, collection, turns, clock, user_message, session_id,
                   memory_context, tool_decision, tools_used, tool_results, response,
                   last_reasoning_trace, docs, memories, file, conversation_buffer,
                   stages, calls>>
    /\ UNCHANGED <<requests, suspended>>

\* time passes between two calls
PassTime ==
    /\ pc = "memory"
    /\ clock < MaxClock
    /\ clock' = clock + 1
    /\ UNCHANGED <<client, collection, pc, turns, user_message, session_id,
                   memory_context, tool_decision, tools_used, tool_results, response,
                   last_reasoning_trace, result, docs, memories, file,
                   conversation_buffer, stages, calls>>
    /\ UNCHANGED <<requests, suspended>>

NextMemory ==
    \/ StoreMemoryOp
    \/ StoreConversationOp
    \/ SearchOp
    \/ RecentOp
    \/ BuildOp
    \/ TakeAnswer

SpecMemory ==
    InitMemory /\ [][NextMemory]_vars

(***************************************************************************)
(* Storing and searching only                                              *)
(***************************************************************************)
NextSearch ==
    \/ StoreMemoryOp
    \/ SearchOp
    \/ TakeAnswer
    \/ PassTime

SpecSearch ==
    InitMemory /\ [][NextSearch]_vars

(***************************************************************************)
(* A long conversation: one session whose turns are stored one after the   *)
(* other by store_conversation, without a vector store                     *)
(***************************************************************************)
\* turns a long conversation stores
MaxStored == 11

\* the user_message argument of the turns of the long conversation
TurnTexts ==
    { <<"d","e","a","d","l","i","n","e">>, <<"t","a","s","k">> }

InitWindow ==
    /\ client = FALSE
    /\ collection = FALSE
    /\ pc = "window"
    /\ turns = 0
    /\ clock = 0
    /\ user_message = << >>
    /\ session_id = "default"
    /\ memory_context = << >>
    /\ tool_decision = Obj(<< >>)
    /\ tools_used = << >>
    /\ tool_results = << >>
    /\ response = << >>
    /\ last_reasoning_trace = << >>
    /\ result = [kind |-> "none"]
    /\ docs = << >>
    /\ memories = << >>
    /\ file = [exists |-> FALSE, records |-> << >>]
    /\ conversation_buffer = << >>
    /\ stages = << >>
    /\ calls = NoCalls
    /\ requests = 0
    /\ suspended = << >>

\* the next turn of the conversation is stored
StoreTurnOp ==
    /\ pc = "window"
    /\ turns < MaxStored
    /\ turns' = turns + 1
    /\ \E m \in TurnTexts :
          LET s == StoreConversation([docs |-> docs, memories |-> memories, file |-> file],
                                     conversation_buffer, m, WindowResponse, << >>,
                                     session_id, clock, collection, "raise", "ok")
          IN  /\ docs' = s.mem.docs
              /\ memories' = s.mem.memories
              /\ file' = s.mem.file
              /\ conversation_buffer' = s.buffer
    /\ UNCHANGED <<client, collection, pc, clock, user_message, session_id,
                   memory_context, tool_decision, tools_used, tool_results, response,
                   last_reasoning_trace, result, stages, calls>>
    /\ UNCHANGED <<requests, suspended>>

NextWindow ==
    StoreTurnOp

SpecWindow ==
    InitWindow /\ [][NextWindow]_vars

(***************************************************************************)
(* Context building over a longer conversation: turns of one session with  *)
(* long messages, preference records, and get_relevant_context             *)
(***************************************************************************)
\* turns stored before a context is built
MaxBuildTurns == 4

\* preference records stored besides the turns
MaxPreferences == 3

\* a turn of the conversation is stored by store_conversation; the vector
\* store, where there is one, accepts the add
BuildTurnOp ==
    /\ pc = "memory"
    /\ pc' = "answered"
    /\ turns < MaxBuildTurns
    /\ turns' = turns + 1
    /\ \E m \in WindowMessages :
          LET s == StoreConversation([docs |-> docs, memories |-> memories, file |-> file],
                                     conversation_buffer, m, WindowResponse, << >>,
                                     session_id, clock, collection, "ok", "ok")
          IN  /\ docs' = s.mem.docs
              /\ memories' = s.mem.memories
              /\ file' = s.mem.file
              /\ conversation_buffer' = s.buffer
              /\ result' = [kind |-> "turn", user_message |-> m, session_id |-> session_id,
                            id |-> s.mem.id]
    /\ UNCHANGED <<client, collection, clock, user_message, session_id,
                   memory_context, tool_decision, tools_used, tool_results, response,
                   last_reasoning_trace, stages, calls>>
    /\ UNCHANGED <<requests, suspended>>

\* a preference is stored by store_memory(content, "preference")
BuildPreferenceOp ==
    /\ pc = "memory"
    /\ pc' = "answered"
    /\ Len(OfType(docs \o memories, "preference")) < MaxPreferences
    /\ \E content \in {LongBody} :
          LET s == StoreMemory([docs |-> docs, memories |-> memories, file |-> file],
                               content, "preference", << >>, session_id, clock,
                               collection, "ok", "ok")
          IN  /\ docs' = s.docs
              /\ memories' = s.memories
              /\ file' = s.file
              /\ result' = [kind |-> "stored", content |-> content,
                            memory_type |-> "preference", id |-> s.id]
    /\ UNCHANGED <<client, collection, turns, clock, user_message, session_id,
                   memory_context, tool_decision, tools_used, tool_results, response,
                   last_reasoning_trace, conversation_buffer, stages, calls>>
    /\ UNCHANGED <<requests, suspended>>

NextBuild ==
    \/ BuildTurnOp
    \/ BuildPreferenceOp
    \/ BuildOp
    \/ TakeAnswer

SpecBuild ==
    InitMemory /\ [][NextBuild]_vars

(***************************************************************************)
(* Recent conversations: records stored at different clock readings and    *)
(* get_recent_conversations                                                *)
(***************************************************************************)
NextRecent ==
    \/ StoreMemoryOp
    \/ RecentOp
    \/ TakeAnswer
    \/ PassTime

SpecRecent ==
    InitMemory /\ [][NextRecent]_vars

(***************************************************************************)
(* Turns whose collaborators may not answer: chat.completions.create and   *)
(* tool.execute are blocking calls made without a timeout                  *)
(***************************************************************************)
\* the completion call of DECIDE or RESPOND, or the handler called in ACT,
\* does not return: process_message has traced the stage and waits in it
CallNeverReturns ==
    /\ \/ /\ pc = "DECIDE"
          /\ client
          /\ last_reasoning_trace' =
                Append(last_reasoning_trace,
                       TraceEntry("THINK", <<"Analyzing user intent and deciding on action...">>, clock))
          /\ calls' = [calls EXCEPT !.decide = 1]
       \/ /\ pc = "ACT"
          /\ {"tool_name", "tool_params"} \subseteq DOMAIN tool_decision.val
          /\ ToolsGet(tool_decision.val["tool_name"]) # None
          /\ last_reasoning_trace' =
                last_reasoning_trace
                \o <<TraceEntry("ACT", <<"Executing tool: {}", tool_decision.val["tool_name"]>>, clock),
                     TraceEntry("ACT", <<"Parameters: {}", tool_decision.val["tool_params"]>>, clock)>>
          /\ calls' = [calls EXCEPT !.dispatch = 1, !.handler = 1]
       \/ /\ pc = "RESPOND"
          /\ client
          /\ last_reasoning_trace' =
                Append(last_reasoning_trace,
                       TraceEntry("RESPOND", <<"Generating response to user...">>, clock))
          /\ calls' = [calls EXCEPT !.respond = 1]
    /\ stages' = Append(stages, pc)
    /\ pc' = "waiting"
    /\ UNCHANGED <<client, collection, turns, clock, user_message, session_id,
                   memory_context, tool_decision, tools_used, tool_results, response,
                   result, docs, memories, file, conversation_buffer>>
    /\ UNCHANGED <<requests, suspended>>

NextLive ==
    \/ Observe
    \/ Decide
    \/ Act
    \/ Respond
    \/ Store
    \/ Tick
    \/ CallNeverReturns

\* a stage that can run does run: process_message is straight-line code
SpecLive ==
    /\ Init
    /\ [][NextLive]_vars
    /\ WF_vars(Decide)
    /\ WF_vars(Act)
    /\ WF_vars(Respond)
    /\ WF_vars(Store)

(***************************************************************************)
(* Chat requests of one session arriving while a turn is running: the      *)
(* endpoint and process_message are coroutines of one event loop           *)
(***************************************************************************)
\* chat requests received
MaxRequests == 2

\* the stages a running process_message call can be about to run
InFlight ==
    {"DECIDE", "ACT", "RESPOND", "STORE"}

\* an await that hands control to the event loop
Suspends_at_await(stage) ==
    stage \in {"DECIDE", "RESPOND"}

\* "await self._decide_tool_use(...)" and "await self._generate_response(...)":
\* the awaited coroutines call the blocking client and the tools directly
\* and await nothing, so no await of a turn hands control to the event loop
Suspends(stage) ==
    FALSE

\* the locals of the running process_message call
Snapshot ==
    [pc |-> pc, user_message |-> user_message, session_id |-> session_id,
     memory_context |-> memory_context, tool_decision |-> tool_decision,
     tools_used |-> tools_used, tool_results |-> tool_results, response |-> response,
     stages |-> stages, calls |-> calls]

\* what the event loop can run next: 0 is a request that has not started,
\* i the i-th suspended call
Ready(waiting) ==
    (IF requests > 0 THEN {0} ELSE {}) \cup (1..Len(waiting))

\* POST /api/chat arrives; chat_with_agent has not run yet
ReceiveRequest ==
    /\ requests + turns < MaxRequests
    /\ requests' = requests + 1
    /\ UNCHANGED <<client, collection, pc, turns, clock, user_message, session_id,
                   memory_context, tool_decision, tools_used, tool_results, response,
                   last_reasoning_trace, result, docs, memories, file,
                   conversation_buffer, stages, calls, suspended>>

\* the event loop has control (no call is running, or the running call
\* waits at an await) and runs a request or resumes a suspended call
EventLoopRuns ==
    /\ pc \notin InFlight \/ Suspends(pc)
    /\ LET waiting == IF pc \in InFlight THEN Append(suspended, Snapshot) ELSE suspended
       IN  \E work \in Ready(waiting) :
              IF work = 0
              THEN /\ requests' = requests - 1
                   /\ suspended' = waiting
                   /\ BeginTurn
              ELSE /\ requests' = requests
                   /\ suspended' = SubSeq(waiting, 1, work - 1)
                                   \o SubSeq(waiting, work + 1, Len(waiting))
                   /\ pc' = waiting[work].pc
                   /\ user_message' = waiting[work].user_message
                   /\ session_id' = waiting[work].session_id
                   /\ memory_context' = waiting[work].memory_context
                   /\ tool_decision' = waiting[work].tool_decision
                   /\ tools_used' = waiting[work].tools_used
                   /\ tool_results' = waiting[work].tool_results
                   /\ response' = waiting[work].response
                   /\ stages' = waiting[work].stages
                   /\ calls' = waiting[work].calls
                   /\ UNCHANGED <<client, collection, turns, clock, last_reasoning_trace,
                                  result, docs, memories, file, conversation_buffer>>

InitTurns ==
    /\ Init
    /\ ~client
    /\ ~collection

NextTurns ==
    \/ ReceiveRequest
    \/ EventLoopRuns
    \/ Decide
    \/ Act
    \/ Respond
    \/ Store

SpecTurns ==
    InitTurns /\ [][NextTurns]_vars

(***************************************************************************)
(* Decision and dispatch together: a turn that has run OBSERVE on an empty *)
(* memory, for every message of the input space, taking DECIDE and, when   *)
(* the decision asks for a tool, ACT                                       *)
(***************************************************************************)
NextDispatch ==
    \/ Decide
    \/ Act

SpecDispatch ==
    InitDecide /\ [][NextDispatch]_vars

(***************************************************************************)
(* Consecutive turns of one session, with or without a completion backend  *)
(* and without a vector store                                              *)
(***************************************************************************)
InitSession ==
    /\ Init
    /\ ~collection

SpecSession ==
    InitSession /\ [][NextTurns]_vars

(***************************************************************************)
(* A long conversation whose window can be cleared between two turns       *)
(***************************************************************************)
\* a call of clear_conversation_buffer()
ClearWindowOp ==
    /\ pc = "window"
    /\ conversation_buffer # << >>
    /\ conversation_buffer' = << >>
    /\ UNCHANGED <<client, collection, pc, turns, clock, user_message, session_id,
                   memory_context, tool_decision, tools_used, tool_results, response,
                   last_reasoning_trace, result, docs, memories, file, stages, calls>>
    /\ UNCHANGED <<requests, suspended>>

NextWindowOps ==
    \/ StoreTurnOp
    \/ ClearWindowOp

SpecWindowOps ==
    InitWindow /\ [][NextWindowOps]_vars

(***************************************************************************)
(* The reading methods of the memory manager, and a caller that changes    *)
(* the list get_conversation_buffer gave it                                *)
(***************************************************************************)
\* a get_conversation_buffer that hands out the window itself
GetConversationBuffer_no_copy(buffer) ==
    [items |-> buffer, shared |-> TRUE]

\* MemoryManager.get_conversation_buffer: self.conversation_buffer.copy().
\* items: the messages of the returned list; shared: the returned list is
\* the window's own list object.  list.copy() makes a new list; the message
\* dicts it refers to are the window's own
GetConversationBuffer(buffer) ==
    [items |-> buffer, shared |-> FALSE]

\* a message a caller can put into a list
CallerMessage ==
    [role |-> "user", content |-> <<"x">>]

\* a call of get_conversation_buffer()
GetBufferOp ==
    /\ pc = "memory"
    /\ pc' = "answered"
    /\ LET list == GetConversationBuffer(conversation_buffer)
       IN  result' = [kind |-> "buffer", items |-> list.items, shared |-> list.shared,
                      changed |-> "nothing"]
    /\ UNCHANGED <<client, collection, turns, clock, user_message, session_id,
                   memory_context, tool_decision, tools_used, tool_results, response,
                   last_reasoning_trace, docs, memories, file, conversation_buffer,
                   stages, calls>>
    /\ UNCHANGED <<requests, suspended>>

\* the caller changes the list it was given: append, pop, clear, or item
\* assignment.  The window follows only if it is the same list object
CallerChangesList ==
    /\ pc = "answered"
    /\ result.kind = "buffer"
    /\ result.changed = "nothing"
    /\ \E new \in {Append(result.items, CallerMessage), << >>}
                  \cup {SubSeq(result.items, 1, Len(result.items) - 1) : i \in {1}}
                  \cup {[result.items EXCEPT ![i] = CallerMessage] :
                           i \in 1..Len(result.items)} :
          /\ new # result.items
          /\ result' = [result EXCEPT !.items = new, !.changed = "list"]
          /\ conversation_buffer' = IF result.shared THEN new ELSE conversation_buffer
    /\ UNCHANGED <<client, collection, pc, turns, clock, user_message, session_id,
                   memory_context, tool_decision, tools_used, tool_results, response,
                   last_reasoning_trace, docs, memories, file, stages, calls>>
    /\ UNCHANGED <<requests, suspended>>

NextReaders ==
    \/ StoreMemoryOp
    \/ StoreConversationOp
    \/ SearchOp
    \/ RecentOp
    \/ BuildOp
    \/ GetBufferOp
    \/ CallerChangesList
    \/ TakeAnswer

SpecReaders ==
    InitMemory /\ [][NextReaders]_vars

(***************************************************************************)
(* Storing with metadata supplied by the caller, and searching             *)
(***************************************************************************)
\* the metadata argument of store_memory
CallerMetadata ==
    { [category |-> "general"], [type |-> "preference"], [timestamp |-> 0] }

\* a call of store_memory(content, memory_type, metadata); the fallback file
\* can be written
StoreTaggedOp ==
    /\ pc = "memory"
    /\ pc' = "answered"
    /\ Len(docs) + Len(memories) < MaxRecords
    /\ \E input \in StoreInputs, metadata \in CallerMetadata, add \in AddOutcomes :
          LET s == StoreMemory([docs |-> docs, memories |-> memories, file |-> file],
                               input[1], input[2], metadata, "default", clock,
                               collection, add, "ok")
          IN  /\ collection \/ add = "raise"
              /\ docs' = s.docs
              /\ memories' = s.memories
              /\ file' = s.file
              /\ result' = [kind |-> "stored", content |-> input[1],
                            memory_type |-> input[2], id |-> s.id]
    /\ UNCHANGED <<client, collection, turns, clock, user_message, session_id,
                   memory_context, tool_decision, tools_used, tool_results, response,
                   last_reasoning_trace, conversation_buffer, stages, calls>>
    /\ UNCHANGED <<requests, suspended>>

NextKinds ==
    \/ StoreMemoryOp
    \/ StoreTaggedOp
    \/ SearchOp
    \/ TakeAnswer
    \/ PassTime

SpecKinds ==
    InitMemory /\ [][NextKinds]_vars

(***************************************************************************)
(* The fallback file: stores whose file write can fail, and a new          *)
(* MemoryManager started on the same persist directory                     *)
(***************************************************************************)
\* a loader that loses the newest record of the file
LoadFallback_drops_newest(file_now) ==
    IF file_now.exists /\ file_now.records # << >>
    THEN SubSeq(file_now.records, 1, Len(file_now.records) - 1)
    ELSE << >>

\* MemoryManager._initialize_fallback: json.load of fallback_memories.json
\* if the file exists, else the empty list.  The file holds the JSON array
\* json.dump wrote from the list: strings, numbers and objects with string
\* keys, which json.load gives back as they were
LoadFallback(file_now) ==
    IF file_now.exists THEN file_now.records ELSE << >>

\* a call of store_memory(content, memory_type); writing the fallback file
\* can fail
StoreWritingOp ==
    /\ pc = "memory"
    /\ pc' = "answered"
    /\ Len(docs) + Len(memories) < MaxRecords
    /\ \E input \in StoreInputs, add \in AddOutcomes, save \in SaveOutcomes :
          LET s == StoreMemory([docs |-> docs, memories |-> memories, file |-> file],
                               input[1], input[2], << >>, "default", clock,
                               collection, add, save)
          IN  /\ collection \/ add = "raise"
              /\ (collection /\ add = "ok") => save = "ok"
              /\ docs' = s.docs
              /\ memories' = s.memories
              /\ file' = s.file
              /\ result' = [kind |-> "stored", content |-> input[1],
                            memory_type |-> input[2], id |-> s.id,
                            path |-> IF collection /\ add = "ok"
                                     THEN "collection" ELSE "fallback",
                            saved |-> (save = "ok")]
    /\ UNCHANGED <<client, collection, turns, clock, user_message, session_id,
                   memory_context, tool_decision, tools_used, tool_results, response,
                   last_reasoning_trace, conversation_buffer, stages, calls>>
    /\ UNCHANGED <<requests, suspended>>

\* the process is started again on the same persist directory:
\* MemoryManager.__init__ and initialize.  The fallback list is loaded from
\* the file only when no collection is set up; the code never calls
\* persist() on the vector store, so its documents may or may not be there
RestartOp ==
    /\ pc = "memory"
    /\ pc' = "answered"
    /\ collection' \in BOOLEAN
    /\ memories' = IF collection' THEN << >> ELSE LoadFallback(file)
    /\ docs' \in {docs, << >>}
    /\ conversation_buffer' = << >>
    /\ result' = [kind |-> "restarted"]
    /\ UNCHANGED <<client, turns, clock, user_message, session_id, memory_context,
                   tool_decision, tools_used, tool_results, response,
                   last_reasoning_trace, file, stages, calls>>
    /\ UNCHANGED <<requests, suspended>>

NextRestart ==
    \/ StoreWritingOp
    \/ RestartOp
    \/ TakeAnswer
    \/ PassTime

SpecRestart ==
    InitMemory /\ [][NextRestart]_vars

(***************************************************************************)
(* Properties                                                              *)
(***************************************************************************)

\* C1: no turn is aborted, whatever errors occur: process_message never
\* raises, and when it has returned it has returned a response and STORE
\* has run.
C1_TurnNeverAborts ==
    /\ pc # "raised"
    /\ pc = "done" =>
          /\ result.kind = "returned"
          /\ \E i \in 1..Len(stages) : stages[i] = "STORE"

\* C2: STORE always executes: the step taken once RESPOND has produced the
\* response adds exactly one conversation record built from the user
\* message and the response, and appends the user message followed by the
\* response to the conversation window.
C2_StoreAlwaysExecutes ==
    [][pc = "STORE" =>
         LET summary == <<"U","s","e","r",":"," ">> \o user_message \o <<"\n","A","s","s","i","s","t","a","n","t",":"," ">> \o response
             added == IF Len(docs') > Len(docs) THEN docs'[Len(docs')]
                      ELSE memories'[Len(memories')]
         IN  /\ Len(docs') + Len(memories') = Len(docs) + Len(memories) + 1
             /\ SubSeq(docs', 1, Len(docs)) = docs
             /\ SubSeq(memories', 1, Len(memories)) = memories
             /\ added.content = summary
             /\ added.metadata["type"] = "conversation"
             /\ conversation_buffer' =
                   LastN(conversation_buffer
                         \o <<[role |-> "user", content |-> user_message],
                              [role |-> "assistant", content |-> response]>>,
                         BufferLimit)
             /\ pc' = "done"]_vars

\* C3: the stages of a turn run in the order OBSERVE, DECIDE, ACT, RESPOND,
\* STORE, with ACT present exactly when the decision's use_tool flag is
\* true; a turn whose decision has use_tool false invokes no handler, and no
\* turn dispatches more than one tool.
C3_StageOrder ==
    LET full == <<"OBSERVE", "DECIDE", "ACT", "RESPOND", "STORE">>
        skip == <<"OBSERVE", "DECIDE", "RESPOND", "STORE">>
        ran_act == \E i \in 1..Len(stages) : stages[i] = "ACT"
        decided == /\ Len(stages) >= 2
                   /\ tool_decision.kind = "object"
                   /\ "use_tool" \in DOMAIN tool_decision.val
    IN  /\ \/ (Len(stages) <= Len(full) /\ stages = SubSeq(full, 1, Len(stages)))
           \/ (Len(stages) <= Len(skip) /\ stages = SubSeq(skip, 1, Len(stages)))
        /\ pc = "done" => stages \in {full, skip}
        /\ decided => ((ran_act \/ pc = "ACT") <=> tool_decision.val["use_tool"])
        /\ (decided /\ ~tool_decision.val["use_tool"]) =>
              (calls.dispatch = 0 /\ calls.handler = 0)
        /\ calls.dispatch <= 1
        /\ calls.handler <= calls.dispatch
        /\ calls.dispatch = 1 => ran_act

\* C3 witness: a turn that ran all five stages and invoked one handler
C3_Witness ==
    /\ pc = "done"
    /\ stages = <<"OBSERVE", "DECIDE", "ACT", "RESPOND", "STORE">>
    /\ calls.handler = 1

\* C4: when the handler of a registered tool raises, dispatch returns
\* success false with the exception's message as error, nothing reaches
\* process_message, and the turn goes on through RESPOND and STORE.
C4_HandlerRaiseCaught ==
    calls.caught = 1 =>
       /\ pc \in {"RESPOND", "STORE", "done"}
       /\ Len(tool_results) = 1
       /\ tool_results[1].tool \in ToolRegistry
       /\ tool_results[1].result = [success |-> FALSE, error |-> DbError]
       /\ pc = "done" =>
             /\ result.kind = "returned"
             /\ stages = <<"OBSERVE", "DECIDE", "ACT", "RESPOND", "STORE">>

\* C4 witness: a turn whose handler raised has returned
C4_Witness ==
    /\ pc = "done"
    /\ calls.caught = 1
    /\ result.kind = "returned"

\* C5: dispatching a name that is not registered returns a failure tagged
\* "Unknown tool", raises nothing and invokes no handler; the formatter
\* turns the failure into the note "I encountered an issue: Unknown tool:
\* <name>", and the turn completes: once dispatch has returned, the turn is
\* in RESPOND or STORE or has returned a response.
C5_UnknownTool ==
    (/\ calls.dispatch = 1
     /\ tool_decision.val["tool_name"] \notin ToolRegistry) =>
       LET name == tool_decision.val["tool_name"]
           failure == [success |-> FALSE, error |-> <<"U","n","k","n","o","w","n"," ","t","o","o","l",":"," ">> \o Str(name)]
       IN  /\ pc \in {"RESPOND", "STORE", "done"}
           /\ calls.handler = 0
           /\ Len(tool_results) = 1
           /\ tool_results[1].tool = name
           /\ tool_results[1].result = failure
           /\ (pc \in {"STORE", "done"} /\ calls.via = "fallback") =>
                 response = <<"I"," ","e","n","c","o","u","n","t","e","r","e","d"," ","a","n"," ","i","s","s","u","e",":"," ","U","n","k","n","o","w","n"," ","t","o","o","l",":"," ">> \o Str(name)
           /\ pc = "done" =>
                 /\ result.kind = "returned"
                 /\ result.response = response
                 /\ stages = <<"OBSERVE", "DECIDE", "ACT", "RESPOND", "STORE">>

\* C6: every tool result handed to process_message has one of two shapes:
\* success true with a payload and no error, or success false with an error.
C6_ResultShape ==
    \A i \in 1..Len(tool_results) :
       LET r == tool_results[i].result
       IN  /\ "success" \in DOMAIN r
           /\ r["success"] => ("error" \notin DOMAIN r /\ DOMAIN r # {"success"})
           /\ ~r["success"] => "error" \in DOMAIN r

\* C7: every decision returned by _decide_tool_use has use_tool true
\* exactly when tool_name is not null.
C7_FlagAgreesWithName ==
    Len(stages) >= 2 =>
       /\ tool_decision.kind = "object"
       /\ {"use_tool", "tool_name"} \subseteq DOMAIN tool_decision.val
       /\ tool_decision.val["use_tool"] <=> (tool_decision.val["tool_name"] # None)

\* C8: a backend reply that cannot be parsed or does not conform to the
\* decision document is replaced by the rule-based decision: what
\* _decide_tool_use returns from a reply is a conforming document, anything
\* else it returns is the rule-based decision, and nothing is raised.
C8_NonConformingFallsBack ==
    Len(stages) >= 2 =>
       /\ pc # "raised"
       /\ calls.path = "llm" =>
             /\ tool_decision.kind = "object"
             /\ {"use_tool", "tool_name", "tool_params"} \subseteq DOMAIN tool_decision.val
       /\ calls.path = "rule" => tool_decision = Obj(RuleBasedDecision(user_message))

\* C9: without a client, _decide_tool_use returns the rule-based decision
\* and calls no backend; a message containing "add" gets the
\* application_database tool with action create.
C9_NoClientRuleBased ==
    (~client /\ Len(stages) >= 2) =>
       /\ calls.decide = 0
       /\ calls.path = "rule"
       /\ tool_decision = Obj(RuleBasedDecision(user_message))
       /\ Contains(Lower(user_message), <<"a","d","d">>) =>
             /\ tool_decision.val["use_tool"]
             /\ tool_decision.val["tool_name"] = "application_database"
             /\ tool_decision.val["tool_params"] = [action |-> "create"]

\* C9 witness: a message containing "add" decided without a client
C9_Witness ==
    /\ ~client
    /\ Len(stages) >= 2
    /\ Contains(Lower(user_message), <<"a","d","d">>)
    /\ tool_decision.val["tool_name"] = "application_database"

\* C10: the rule-based decision names the tool of the first category, in
\* the order application, research, essay, task, that has a keyword in the
\* message; "deadline" alone goes to research; no match gives use_tool
\* false and a null tool name.
C10_CategoryOrder ==
    (Len(stages) >= 2 /\ calls.path = "rule") =>
       LET m == Lower(user_message)
           d == tool_decision.val
           in_app == AnyIn(app_keywords, m)
           in_research == AnyIn(research_keywords, m)
           in_essay == AnyIn(essay_keywords, m)
           in_task == AnyIn(task_keywords, m)
       IN  /\ in_app => (d["use_tool"] /\ d["tool_name"] = "application_database")
           /\ (~in_app /\ in_research) =>
                 (d["use_tool"] /\ d["tool_name"] = "program_research")
           /\ (~in_app /\ ~in_research /\ in_essay) =>
                 (d["use_tool"] /\ d["tool_name"] = "essay_analyzer")
           /\ (~in_app /\ ~in_research /\ ~in_essay /\ in_task) =>
                 (d["use_tool"] /\ d["tool_name"] = "calendar_todo")
           /\ (~in_app /\ ~in_research /\ ~in_essay /\ ~in_task) =>
                 (~d["use_tool"] /\ d["tool_name"] = None)
           /\ (Contains(m, <<"d","e","a","d","l","i","n","e">>) /\ ~in_app) => d["tool_name"] = "program_research"

\* C10 witness: a message with a research and a task keyword and no
\* application keyword was given to the research tool
C10_Witness ==
    /\ Len(stages) >= 2
    /\ calls.path = "rule"
    /\ Contains(Lower(user_message), <<"d","e","a","d","l","i","n","e">>)
    /\ Contains(Lower(user_message), <<"t","a","s","k">>)
    /\ ~AnyIn(app_keywords, Lower(user_message))
    /\ tool_decision.val["tool_name"] = "program_research"


\* C11: self-match: a query with exactly the body text of a stored record
\* returns that record ranked first.  The embedding distances are the
\* vector store's own; the formula states the property for the answers of
\* the lexical fallback path: whenever the query is the body of a record of
\* the fallback list that passes the kind filter, the first result has that
\* body.
C11_SelfMatch ==
    (pc = "answered" /\ result.kind = "search" /\ result.path = "lexical") =>
       \A i \in 1..Len(memories) :
          (/\ memories[i].content = result.query
           /\ (result.memory_type = None
               \/ memories[i].metadata["type"] = result.memory_type)) =>
             /\ result.found # << >>
             /\ result.found[1].content = memories[i].content

C13_TieMostRecentFirst ==
    (pc = "answered" /\ result.kind = "search" /\ result.path = "lexical") =>
       \A i \in 1..Len(result.found), j \in 1..Len(result.found) :
          (i < j /\ result.found[i].score = result.found[j].score) =>
             result.found[i].metadata["timestamp"] >= result.found[j].metadata["timestamp"]

\* C17: no two stored records share an id, also when two store calls with
\* the same text and kind happen at the same clock reading.
C17_DistinctIds ==
    LET all == docs \o memories
    IN  \A i \in 1..Len(all), j \in 1..Len(all) :
           i # j => all[i].id # all[j].id

\* C14: the size estimate (1.3 per whitespace word, kept in tenths) of the
\* context returned by get_relevant_context never exceeds max_tokens.
C14_WithinBudget ==
    (pc = "answered" /\ result.kind = "context") =>
       13 * WordCount(result.context) <= 10 * result.max_tokens

\* C15: budget monotonicity: for the same window, store, query and search
\* answers, the parts of the context built with a budget b1 are a prefix of
\* the parts built with any budget b2 >= b1 (a search that b1 did not issue
\* may answer anything the store allows).
C15_BudgetMonotone ==
    (pc = "answered" /\ result.kind = "context") =>
       \A b2 \in Budgets :
          result.max_tokens <= b2 =>
             \A q1 \in CollectionQuery(docs, 3, "conversation"),
                q2 \in CollectionQuery(docs, 2, "preference") :
                LET issued == {result.queries[i] : i \in 1..Len(result.queries)}
                    similar2 == IF "conversation" \in issued THEN result.similar
                                ELSE SearchSimilar(collection, docs, memories, result.query,
                                                   3, "conversation", q1)
                    prefs2 == IF "preference" \in issued THEN result.prefs
                              ELSE SearchSimilar(collection, docs, memories, result.query,
                                                 2, "preference", q2)
                    recent2 == ContextRecent(conversation_buffer)
                    related2 == IF StageOpen(recent2, b2)
                                THEN ContextSimilar(recent2, similar2, b2) ELSE recent2
                    built2 == IF StageOpen(related2, b2)
                              THEN ContextPrefs(related2, prefs2, b2) ELSE related2
                IN  /\ Len(result.parts) <= Len(built2.parts)
                    /\ result.parts = SubSeq(built2.parts, 1, Len(result.parts))

\* C15 witness: a context built with the small budget that is a proper part
\* of what the default budget gives for the same window, store and query
C15_Witness ==
    /\ pc = "answered"
    /\ result.kind = "context"
    /\ result.max_tokens = 2
    /\ result.queries = <<"conversation">>
    /\ Len(result.similar) = 2
    /\ Len(result.parts) = 2
    /\ Len(ContextSimilar(ContextRecent(conversation_buffer), result.similar,
                          DefaultMaxTokens).parts) = 3

\* C16: the context is assembled in stage order: the last RecentMessages
\* messages of the window in window order, each body cut to RecentCap; then
\* at most SimilarCap-cut 3 conversation records; then at most 2 PrefCap-cut
\* preference records; once the running estimate has reached max_tokens
\* after a stage, the later stages issue no search and add no text.
C16_StageOrder ==
    (pc = "answered" /\ result.kind = "context") =>
       LET window == conversation_buffer
           first == IF Len(window) > 6 THEN Len(window) - 5 ELSE 1
           shown == Len(window) - first + 1
           stage1 == IF window = << >> THEN << >>
                     ELSE <<<<"=","=","="," ","R","e","c","e","n","t"," ","C","o","n","v","e","r","s","a","t","i","o","n"," ","=","=","=">>>>
                          \o [i \in 1..shown |->
                                (IF window[first + i - 1].role = "user"
                                 THEN <<"U","s","e","r",":"," ">> ELSE <<"Y","o","u",":"," ">>)
                                \o Take(window[first + i - 1].content, 300)]
           Items2(k) == [i \in 1..k |-> Take(result.similar[i].content, 400)]
           Stage2(k) == IF k = 0 THEN << >>
                        ELSE <<<<"\n","=","=","="," ","R","e","l","a","t","e","d"," ","P","a","s","t"," ","C","o","n","v","e","r","s","a","t","i","o","n","s"," ","=","=","=">>>> \o Items2(k)
           Stage3(k) == IF k = 0 THEN << >>
                        ELSE <<<<"\n","=","=","="," ","U","s","e","r"," ","P","r","e","f","e","r","e","n","c","e","s"," ","=","=","=">>>>
                             \o [i \in 1..k |-> Take(result.prefs[i].content, 200)]
           estimate1 == 13 * SumWords(stage1)
           budget == 10 * result.max_tokens
       IN  \E k2 \in 0..3, k3 \in 0..2 :
              /\ k2 <= Len(result.similar)
              /\ k3 <= Len(result.prefs)
              /\ result.parts = stage1 \o Stage2(k2) \o Stage3(k3)
              /\ result.context = Join(result.parts, <<"\n">>)
              /\ \A i \in 1..k2 : result.similar[i].metadata["type"] = "conversation"
              /\ \A i \in 1..k3 : result.prefs[i].metadata["type"] = "preference"
              /\ estimate1 >= budget =>
                    result.queries = << >> /\ k2 = 0 /\ k3 = 0
              /\ estimate1 + 13 * SumWords(Items2(k2)) >= budget =>
                    /\ \A i \in 1..Len(result.queries) : result.queries[i] # "preference"
                    /\ k3 = 0

\* C16 witness: a context built over a window of more than six messages in
\* which every stage contributes up to its limit and every body is cut
C16_Witness ==
    /\ pc = "answered"
    /\ result.kind = "context"
    /\ Len(conversation_buffer) > 6
    /\ Len(conversation_buffer[1].content) > 300
    /\ result.queries = <<"conversation", "preference">>
    /\ Len(result.similar) = 3
    /\ Len(result.prefs) = 2
    /\ Len(result.parts) = 14
    /\ Len(result.parts[2]) = 306
    /\ Len(result.parts[9]) = 400
    /\ Len(result.parts[14]) = 200

\* C18: the store is append-only: every step of store, search, recent and
\* build operations leaves each record of the vector store and of the
\* fallback list in place, unchanged and in insertion order.
C18_AppendOnly ==
    [][/\ Len(docs) <= Len(docs')
       /\ docs = SubSeq(docs', 1, Len(docs))
       /\ Len(memories) <= Len(memories')
       /\ memories = SubSeq(memories', 1, Len(memories))]_vars

\* C18 witness: two different records are held, in the order they were
\* stored, after a search, recent or build call has answered
C18_Witness ==
    /\ pc = "answered"
    /\ result.kind \in {"search", "recent", "context"}
    /\ Len(memories) = 2
    /\ memories[1].content # memories[2].content

\* C19: the conversation window holds at most BufferLimit messages, oldest
\* first, and is the last min(BufferLimit, 2k) messages of the k turns
\* stored so far.
C19_WindowIsTail ==
    pc = "window" =>
       LET k == Len(memories)
           all == [i \in 1..(2 * k) |->
                     IF i % 2 = 1
                     THEN [role |-> "user",
                           content |-> memories[(i + 1) \div 2].metadata["user_message"]]
                     ELSE [role |-> "assistant",
                           content |-> memories[i \div 2].metadata["agent_response"]]]
           n == IF 2 * k < 20 THEN 2 * k ELSE 20
       IN  /\ k = turns
           /\ Len(conversation_buffer) = n
           /\ Len(conversation_buffer) <= 20
           /\ \A i \in 1..n : conversation_buffer[i] = all[2 * k - n + i]

\* C19 witness: more than ten turns are stored, the window is full and the
\* message dropped from its front differs from the one now first
C19_Witness ==
    /\ pc = "window"
    /\ turns > 10
    /\ Len(conversation_buffer) = 20
    /\ memories[turns - 10].metadata["user_message"] # conversation_buffer[1].content

\* C20: the window is session-scoped: for every session s, the recent-
\* conversation part of a context built for s is made of the messages of
\* the turns stored under s only.  Stated where the fallback list records
\* every turn with its session.
C20_SessionScoped ==
    (pc = "answered" /\ result.kind = "context" /\ ~collection) =>
       \A s \in MemorySessions :
          LET OfSession(m) == /\ m.metadata["type"] = "conversation"
                              /\ m.metadata["session_id"] = s
              own == SelectSeq(memories, OfSession)
              messages == [i \in 1..(2 * Len(own)) |->
                             IF i % 2 = 1
                             THEN [role |-> "user",
                                   content |-> own[(i + 1) \div 2].metadata["user_message"]]
                             ELSE [role |-> "assistant",
                                   content |-> own[i \div 2].metadata["agent_response"]]]
              expected == ContextRecent(LastN(messages, BufferLimit)).parts
          IN  /\ Len(expected) <= Len(result.parts)
              /\ SubSeq(result.parts, 1, Len(expected)) = expected
              /\ expected = << >> =>
                    (result.parts = << >> \/ result.parts[1] # <<"=","=","="," ","R","e","c","e","n","t"," ","C","o","n","v","e","r","s","a","t","i","o","n"," ","=","=","=">>)

\* C21: a vector store call that raises during store_memory or
\* search_similar is caught and only that call is served by the fallback:
\* the store still returns the id of a record that is held, the search
\* still returns the lexical result list, and the vector store stays
\* configured, so the next call goes to it again.
C21_FallbackPerCall ==
    [][/\ collection' = collection
       /\ (pc' = "answered" /\ result'.kind = "stored") =>
             /\ result'.id = MemoryId(result'.memory_type, clock)
             /\ \E i \in 1..Len(docs' \o memories') : (docs' \o memories')[i].id = result'.id
             /\ ~collection => memories' = Append(memories, memories'[Len(memories')])
       /\ (pc' = "answered" /\ result'.kind = "search") =>
             /\ result'.path \in {"embedding", "lexical"}
             /\ result'.path = "embedding" => collection
             /\ result'.path = "lexical" =>
                   result'.found = SearchFallback(memories, result'.query, result'.limit,
                                                  result'.memory_type)]_vars

\* C21 witness: a store was served by the fallback list after the vector
\* store raised, and a later search is answered by the vector store
C21_Witness ==
    /\ collection
    /\ memories # << >>
    /\ pc = "answered"
    /\ result.kind = "search"
    /\ result.path = "embedding"
    /\ result.found # << >>

\* C22: the results of the embedding path and of the lexical path have the
\* same shape: the fields of every result of a search_similar answer are the
\* fields of every result that either path can give for the same call.
C22_SameShape ==
    (pc = "answered" /\ result.kind = "search" /\ collection) =>
       \A outcome \in CollectionQuery(docs, result.limit, result.memory_type) :
          LET other == SearchSimilar(collection, docs, memories, result.query,
                                     result.limit, result.memory_type, outcome)
          IN  \A i \in 1..Len(result.found), j \in 1..Len(other) :
                 DOMAIN result.found[i] = DOMAIN other[j]

\* C23: get_recent_conversations(limit) returns at most limit records, all
\* of conversation kind, newest first by timestamp, and they are the newest
\* of the store that served the call: no conversation record left out is
\* newer than a returned one.
C23_RecentNewest ==
    (pc = "answered" /\ result.kind = "recent") =>
       LET found == result.found
           all == OfType(IF result.path = "collection" THEN docs ELSE memories,
                         "conversation")
           Returned(r) == \E i \in 1..Len(found) :
                             /\ found[i].content = r.content
                             /\ found[i].metadata = r.metadata
       IN  /\ Len(found) <= result.limit
           /\ \A i \in 1..Len(found) :
                 /\ found[i].metadata["type"] = "conversation"
                 /\ \E j \in 1..Len(all) : /\ all[j].content = found[i].content
                                           /\ all[j].metadata = found[i].metadata
           /\ \A i \in 1..(Len(found) - 1) :
                 found[i].metadata["timestamp"] >= found[i + 1].metadata["timestamp"]
           /\ \A j \in 1..Len(all) :
                 ~Returned(all[j]) =>
                    \A i \in 1..Len(found) :
                       all[j].metadata["timestamp"] <= found[i].metadata["timestamp"]

\* C24: in RESPOND, when there is no completion backend or its call
\* failed, the response is the formatter's: the acknowledgment quoting the
\* message when no tool ran, and otherwise a text that contains the message
\* of every tool result that is a success with a message.
C24_FormatterOnFailure ==
    LET failed == \E i \in 1..Len(last_reasoning_trace) :
                     /\ last_reasoning_trace[i].step = "ERROR"
                     /\ last_reasoning_trace[i].message
                           = <<"LLM response generation failed: {}">>
    IN  (stages # << >> /\ stages[Len(stages)] \in {"RESPOND", "STORE"}
         /\ (~client \/ failed)) =>
           /\ tool_results = << >> =>
                 response = <<"I"," ","u","n","d","e","r","s","t","a","n","d"," ","y","o","u"," ","s","a","i","d",":"," ","'">> \o Take(user_message, 100)
                            \o <<"'","."," ","H","o","w"," ","c","a","n"," ","I"," ","h","e","l","p"," ","y","o","u"," ","w","i","t","h"," ","y","o","u","r"," ","g","r","a","d","u","a","t","e"," ","s","c","h","o","o","l"," ","a","p","p","l","i","c","a","t","i","o","n","s"," ","t","o","d","a","y","?">>
           /\ \A i \in 1..Len(tool_results) :
                 LET r == tool_results[i].result
                 IN  ("success" \in DOMAIN r /\ r["success"] = TRUE
                      /\ "message" \in DOMAIN r /\ r["message"] # << >>) =>
                        Contains(response, r["message"])

\* C24 witness: the response call failed after a tool returned a success
\* with a message, and the turn was stored
C24_Witness ==
    /\ pc = "done"
    /\ client
    /\ calls.respond = 1
    /\ calls.via = "fallback"
    /\ Len(tool_results) = 1
    /\ "success" \in DOMAIN tool_results[1].result
    /\ tool_results[1].result["success"] = TRUE
    /\ "message" \in DOMAIN tool_results[1].result
    /\ tool_results[1].result["message"] # << >>
    /\ Contains(response, tool_results[1].result["message"])

\* C25: no stage is retried within a turn: a stage is entered at most once,
\* the completion backend is called at most once in DECIDE and at most once
\* in RESPOND, a tool is dispatched at most once, and a failed decision
\* call sends only DECIDE to the rules: RESPOND still calls the backend.
C25_NoRetry ==
    LET decide_failed == \E i \in 1..Len(last_reasoning_trace) :
                            /\ last_reasoning_trace[i].step = "ERROR"
                            /\ last_reasoning_trace[i].message = <<"LLM decision failed: {}">>
    IN  /\ \A i \in 1..Len(stages), j \in 1..Len(stages) :
              i # j => stages[i] # stages[j]
        /\ calls.decide <= 1
        /\ calls.respond <= 1
        /\ calls.dispatch <= 1
        /\ calls.handler <= 1
        /\ decide_failed => (calls.decide = 1 /\ calls.path = "rule")
        /\ (decide_failed /\ stages[Len(stages)] \in {"RESPOND", "STORE"}) =>
              calls.respond = 1

\* C25 witness: a turn whose decision call failed and whose response call
\* was made and answered
C25_Witness ==
    /\ pc = "done"
    /\ client
    /\ calls.decide = 1
    /\ calls.path = "rule"
    /\ calls.dispatch = 1
    /\ calls.respond = 1
    /\ calls.via = "llm"

\* C26: every started turn eventually reaches its terminal state (it
\* returns, or an exception leaves process_message), also when a completion
\* call or a tool call does not return.
C26_TurnTerminates ==
    (pc = "DECIDE") ~> (pc \in {"done", "raised"})

C28_OneStepPerStage ==
    (pc = "done" /\ tools_used # << >>) =>
       LET steps == result.reasoning_steps
       IN  /\ Len(steps) = Len(stages)
           /\ \A i \in 1..Len(steps) :
                 /\ DOMAIN steps[i] = {"step", "message", "timestamp"}
                 /\ i <= Len(stages) =>
                       \/ steps[i].step = stages[i]
                       \/ stages[i] = "DECIDE" /\ steps[i].step = "THINK"
           /\ \A i \in 1..Len(docs \o memories) :
                 DOMAIN (docs \o memories)[i].metadata
                    \subseteq {"type", "session_id", "timestamp", "user_message",
                               "agent_response", "tools_used"}

\* C29: scenario A: for "Add MIT Computer Science PhD, deadline 2025-12-15"
\* with the completion backend unavailable the decision is use_tool with
\* application_database and action create, ACT dispatches and the tool
\* result is a success, the formatter's response contains the tool's
\* message, and STORE adds exactly one conversation record.
C29_ScenarioA ==
    (/\ pc = "done"
     /\ user_message = <<"A","d","d"," ","M","I","T"," ","C","o","m","p","u","t","e","r"," ","S","c","i","e","n","c","e"," ","P","h","D",","," ","d","e","a","d","l","i","n","e"," ","2","0","2","5","-","1","2","-","1","5">>
     /\ ~client \/ (calls.path = "rule" /\ calls.via = "fallback")) =>
       /\ tool_decision.val["use_tool"] = TRUE
       /\ tool_decision.val["tool_name"] = "application_database"
       /\ tool_decision.val["tool_params"]["action"] = "create"
       /\ calls.dispatch = 1
       /\ Len(tool_results) = 1
       /\ "success" \in DOMAIN tool_results[1].result
       /\ tool_results[1].result["success"] = TRUE
       /\ "message" \in DOMAIN tool_results[1].result
       /\ Contains(response, tool_results[1].result["message"])
       /\ Len(OfType(docs \o memories, "conversation")) = 1

\* C30: scenario B: for "What's due this week?" with the completion backend
\* unavailable the decision names calendar_todo, and when the tool reports
\* zero tasks the formatter's response is an acknowledgment, not an error
\* text.
C30_ScenarioB ==
    (/\ pc = "done"
     /\ user_message = <<"W","h","a","t","'","s"," ","d","u","e"," ","t","h","i","s"," ","w","e","e","k","?">>
     /\ ~client \/ (calls.path = "rule" /\ calls.via = "fallback")) =>
       /\ tool_decision.val["use_tool"] = TRUE
       /\ tool_decision.val["tool_name"] = "calendar_todo"
       /\ Len(tool_results) = 1
       /\ ("total" \in DOMAIN tool_results[1].result
           /\ tool_results[1].result["total"] = 0) =>
             /\ ~Contains(response, <<"I"," ","e","n","c","o","u","n","t","e","r","e","d"," ","a","n"," ","i","s","s","u","e">>)
             /\ ~Contains(response, <<"e","r","r","o","r">>)

(***************************************************************************)
(* Claims C31..C39                                                         *)
(***************************************************************************)
\* C31: every rule-based decision with use_tool true names a registered
\* tool and carries an action this tool's execute accepts: after the
\* dispatch of a rule-based decision the tool result is neither an
\* unknown-tool nor an unknown-action failure.
C31_RuleActionsAccepted ==
    (/\ calls.path = "rule"
     /\ calls.dispatch = 1
     /\ Len(tool_results) = 1) =>
       /\ tool_results[1].tool \in ToolRegistry
       /\ "error" \in DOMAIN tool_results[1].result =>
             /\ Take(tool_results[1].result["error"], 13) # <<"U","n","k","n","o","w","n"," ","t","o","o","l",":">>
             /\ Take(tool_results[1].result["error"], 15) # <<"U","n","k","n","o","w","n"," ","a","c","t","i","o","n",":">>

\* C32: every record for which store returned an id is visible to later
\* queries whichever path serves them: a search whose limit covers the
\* whole store and whose query is the body of a stored record of the
\* requested type returns that record, whether the record is held by the
\* collection or by the fallback list and whether the search was served by
\* the collection or by lexical scoring.
C32_VisibleOnEitherPath ==
    (/\ result.kind = "search"
     /\ result.limit >= Len(docs) + Len(memories)) =>
       \A i \in 1..Len(docs \o memories) :
          LET record == (docs \o memories)[i]
          IN  (/\ record.content = result.query
               /\ result.memory_type \in {None, record.metadata["type"]}) =>
                 \E j \in 1..Len(result.found) :
                    /\ result.found[j].id = record.id
                    /\ result.found[j].content = record.content

\* C33: in the rule-based decision for an application-management message
\* the action is chosen with the precedence create (add / create / new),
\* then update (update / change / move), then delete (delete / remove),
\* then read: delete is given only to a message with a delete verb and no
\* create or update verb, and a message with none of the verbs gets read.
C33_ActionPrecedence ==
    (/\ calls.path = "rule"
     /\ "tool_name" \in DOMAIN tool_decision.val
     /\ tool_decision.val["tool_name"] = "application_database") =>
       LET message_lower == Lower(user_message)
           creates == \E w \in {<<"a","d","d">>, <<"c","r","e","a","t","e">>, <<"n","e","w">>} : Contains(message_lower, w)
           updates == \E w \in {<<"u","p","d","a","t","e">>, <<"c","h","a","n","g","e">>, <<"m","o","v","e">>} : Contains(message_lower, w)
           deletes == \E w \in {<<"d","e","l","e","t","e">>, <<"r","e","m","o","v","e">>} : Contains(message_lower, w)
           action == tool_decision.val["tool_params"]["action"]
       IN  /\ action = "create" <=> creates
           /\ action = "update" <=> (updates /\ ~creates)
           /\ action = "delete" <=> (deletes /\ ~updates /\ ~creates)
           /\ action = "read" <=> (~deletes /\ ~updates /\ ~creates)

\* C33 witness: a rule-based decision for a message that holds a create
\* verb and a delete verb
C33_Witness ==
    /\ calls.path = "rule"
    /\ "tool_name" \in DOMAIN tool_decision.val
    /\ tool_decision.val["tool_name"] = "application_database"
    /\ tool_decision.val["tool_params"]["action"] = "create"
    /\ Contains(Lower(user_message), <<"d","e","l","e","t","e">>)
    /\ Contains(Lower(user_message), <<"a","d","d">>)

\* C34: OBSERVE precedes STORE in every turn: while a turn runs, the window
\* and the stores hold only the turns before it, so its context holds
\* nothing of its own message or response (the context of a first turn is
\* empty); and the context built for the next turn has the message and the
\* response of the turn before it, each cut to the character cap, as the
\* last two entries of its recent-conversation part.
C34_ContextLagsByOneTurn ==
    /\ []((pc \in InFlight /\ turns = 1) =>
             /\ memory_context = << >>
             /\ conversation_buffer = << >>
             /\ docs \o memories = << >>)
    /\ [][(turns >= 1 /\ turns' = turns + 1) =>
             LET entries == <<"\n","U","s","e","r",":"," ">> \o Take(user_message, RecentCap)
                            \o <<"\n","Y","o","u",":"," ">> \o Take(response, RecentCap)
                 last == Len(memory_context') - Len(entries) + 1
             IN  /\ Take(memory_context', 27) = <<"=","=","="," ","R","e","c","e","n","t"," ","C","o","n","v","e","r","s","a","t","i","o","n"," ","=","=","=">>
                 /\ \E k \in 1..last :
                       /\ SubSeq(memory_context', k, k + Len(entries) - 1) = entries
                       /\ \/ k = last
                          \/ SubSeq(memory_context', k + Len(entries), k + Len(entries) + 5)
                                = <<"\n","\n","=","=","="," ">>]_vars

\* C35: in every reachable state the conversation window has even length
\* and alternates roles starting with a user message: cutting the window to
\* its last BufferLimit messages never splits an exchange.
C35_WholeExchanges ==
    /\ Len(conversation_buffer) % 2 = 0
    /\ \A i \in 1..Len(conversation_buffer) :
          conversation_buffer[i].role = IF i % 2 = 1 THEN "user" ELSE "assistant"

\* C35 witness: the window has been cut: more turns were stored since it
\* was last empty than it holds
C35_Witness ==
    /\ pc = "window"
    /\ turns > 10
    /\ Len(conversation_buffer) = 20
    /\ conversation_buffer[1].role = "user"
    /\ conversation_buffer[1].content # memories[1].metadata["user_message"]

\* C36: the list of tools used returned by a turn has at most one entry; it
\* is the decided tool name whenever the decision has use_tool true, also
\* when the dispatch failed, and it is empty exactly when use_tool is
\* false; the record the turn stores carries the same list (comma-joined)
\* in its metadata.
C36_ToolsUsedReturned ==
    [][(pc = "STORE" /\ pc' = "done") =>
          LET used == result'.tools_used
              added == SubSeq(docs', Len(docs) + 1, Len(docs'))
                       \o SubSeq(memories', Len(memories) + 1, Len(memories'))
          IN  /\ result'.kind = "returned"
              /\ Len(used) <= 1
              /\ tool_decision.val["use_tool"] = TRUE =>
                    used = <<tool_decision.val["tool_name"]>>
              /\ used = << >> <=> tool_decision.val["use_tool"] = FALSE
              /\ \A i \in 1..Len(added) :
                    added[i].metadata["tools_used"]
                       = IF used = << >> THEN << >> ELSE Str(used[1])]_vars

\* C36 witness: a turn whose dispatch failed (the tool is not registered)
\* has returned, and its record is stored
C36_Witness ==
    /\ pc = "done"
    /\ result.kind = "returned"
    /\ calls.dispatch = 1
    /\ calls.handler = 0
    /\ result.tools_used = <<"web_search">>
    /\ Len(docs \o memories) = 1
    /\ (docs \o memories)[1].metadata["tools_used"] = <<"w","e","b","_","s","e","a","r","c","h">>

\* C37: query, recent, build and get_conversation_buffer are read-only:
\* a call of one of them leaves the stored records, their order, the
\* fallback file and the conversation window as they were; and a change of
\* the list get_conversation_buffer returned leaves the window as it was.
C37_ReadersChangeNothing ==
    [][(\/ /\ pc = "memory"
           /\ pc' = "answered"
           /\ result'.kind \in {"search", "recent", "context", "buffer"}
        \/ /\ result.kind = "buffer"
           /\ result'.kind = "buffer"
           /\ result'.changed = "list") =>
          /\ docs' = docs
          /\ memories' = memories
          /\ file' = file
          /\ conversation_buffer' = conversation_buffer]_vars

\* C37 witness: a caller has changed the list it got from
\* get_conversation_buffer while the window holds a stored turn
C37_Witness ==
    /\ pc = "answered"
    /\ result.kind = "buffer"
    /\ result.changed = "list"
    /\ Len(conversation_buffer) = 2
    /\ result.items # conversation_buffer

\* C38: the kind under which a record is filtered equals the kind passed to
\* store (the id of a record starts with it): metadata supplied by the
\* caller cannot change the type of a record, so a search filtered to one
\* kind returns only records stored as that kind.
C38_KindIsStoreKind ==
    /\ \A i \in 1..Len(docs \o memories) :
          (docs \o memories)[i].metadata["type"] = (docs \o memories)[i].id[1]
    /\ (result.kind = "search" /\ result.memory_type # None) =>
          \A j \in 1..Len(result.found) : result.found[j].id[1] = result.memory_type

====
